---- MODULE Spec2Model ----
(***************************************************************************)
(* A model of SSEToolHandler (src/app/utils/sse_tool_handler.py): the      *)
(* per-response translator of upstream SSE chunks into OpenAI              *)
(* chat.completion.chunk frames.                                           *)
(*                                                                         *)
(* Text is a sequence of one-character strings, so that find, split,       *)
(* startswith and slicing are computed position by position as Python      *)
(* computes them.  Identifiers that are only passed through (tool ids,     *)
(* tool names, phases, the model id) are TLA+ strings.                     *)
(*                                                                         *)
(* process_sse_chunk is a generator; the model takes its consumer to       *)
(* drain it, so one action is one whole call: the frames it yields are     *)
(* appended to out, and the fields have the values they have when the      *)
(* generator is exhausted.                                                 *)
(***************************************************************************)
EXTENDS Integers, Sequences, FiniteSets, TLC

\* The number of upstream chunks fed to the handler in one run.
MaxChunks == 4

\* The same, where behaviours are checked to their end.
MaxLiveChunks == 2

\* The same, for the upstream that sends answer text of every kind.
MaxTextChunks == 3

\* The same, for the upstream that calls the tools that write files.
MaxFilesChunks == 3

\* The same, for the upstream that sends blocks without tool metadata.
MaxBlocksChunks == 3

\* The same, for the upstream that sends chunks with and without usage.
MaxUsageChunks == 4

\* The same, for each of two handlers fed in turn.
MaxPairChunks == 1
MaxPeerChunks == 2

\* The same, for the upstream of tool calls with arguments of many shapes.
MaxArgsChunks == 2

\* The same, for the upstream of the scenario.
MaxScenarioChunks == 2

\* The same, for the upstream of continuations of a tool's arguments.
MaxFragmentChunks == 3

\* The same, for the upstream of other-phase chunks of every kind.
MaxOtherChunks == 3

\* The same, for the upstream of tools whose arguments are empty or only
\* begun.
MaxTrivialChunks == 3

\* Python's None, where a string is expected.
None == "<None>"

------------------------------------------------------------------------------
(* Python string operations on sequences of characters.                    *)

\* The element of a one-element set.  An operator written
\* Only({e : r \in {run}}) takes the value of run once, however often e
\* uses r.
Only(S) == CHOOSE x \in S : TRUE

\* pat occurs in s at 0-based offset i.
IsAt(s, pat, i) ==
    /\ i >= 0
    /\ i + Len(pat) <= Len(s)
    /\ \A k \in 1..Len(pat) : s[i + k] = pat[k]

\* str.find: the lowest 0-based offset of pat in s, or -1.
\* The 0-based offsets at which pat occurs in s.
Offsets(s, pat) == {i \in 0..(Len(s) - Len(pat)) : IsAt(s, pat, i)}

\* The least of a set of offsets, or -1 when there is none.
LowestOr(hits) ==
    IF hits = {} THEN -1 ELSE CHOOSE i \in hits : \A j \in hits : i <= j

\* The greatest of a set of offsets, or -1 when there is none.
HighestOr(hits) ==
    IF hits = {} THEN -1 ELSE CHOOSE i \in hits : \A j \in hits : i >= j

\* str.find: the lowest 0-based offset of pat in s, or -1.
Find(s, pat) == LowestOr(Offsets(s, pat))

\* str.rfind: the highest 0-based offset of pat in s, or -1.
RFind(s, pat) == HighestOr(Offsets(s, pat))

\* pat in s
Contains(s, pat) == Find(s, pat) # -1

\* s.startswith(pat)
StartsWith(s, pat) == IsAt(s, pat, 0)

\* s.endswith(pat)
EndsWith(s, pat) == IsAt(s, pat, Len(s) - Len(pat))

\* A slice bound as Python clamps it: a negative bound counts from the end.
ClampIndex(s, i) ==
    IF i < 0 THEN (IF Len(s) + i < 0 THEN 0 ELSE Len(s) + i)
    ELSE IF i > Len(s) THEN Len(s) ELSE i

\* s[a:b]
\* The characters of s after the first lo and up to the first hi.
Cut(s, lo, hi) == IF hi <= lo THEN <<>> ELSE SubSeq(s, lo + 1, hi)

Slice(s, a, b) == Cut(s, ClampIndex(s, a), ClampIndex(s, b))

\* s[a:]
SliceFrom(s, a) == Slice(s, a, Len(s))

\* s[:b]
SliceTo(s, b) == Slice(s, 0, b)

\* s.split(sep): the pieces between the non-overlapping occurrences of sep,
\* found left to right.
RECURSIVE Split(_, _)

\* p is the offset of the first sep in s, or -1.
SplitAt(s, sep, p) ==
    IF p = -1 THEN <<s>>
    ELSE <<SliceTo(s, p)>> \o Split(SliceFrom(s, p + Len(sep)), sep)

Split(s, sep) == SplitAt(s, sep, Find(s, sep))

\* The characters str.strip() removes.
Whitespace == {" ", "\n", "\t", "\r"}

\* not s.strip()
IsBlank(s) == \A i \in 1..Len(s) : s[i] \in Whitespace

------------------------------------------------------------------------------
(* The literals the handler searches for.                                  *)

GLM_OPEN == <<"<", "g", "l", "m", "_", "b", "l", "o", "c", "k", " ">>
GLM_CLOSE == <<"<", "/", "g", "l", "m", "_", "b", "l", "o", "c", "k", ">">>
GT == <<">">>
RESULT_KEY == <<"\"", "r", "e", "s", "u", "l", "t", "\"">>
RESULT_SEP == <<"\"", ",", " ", "\"", "r", "e", "s", "u", "l", "t", "\"">>
NULL_COMMA == <<"n", "u", "l", "l", ",">>
EMPTY_OBJECT == <<"{", "}">>
OPEN_BRACE == <<"{">>
OPEN_BRACE_QUOTE == <<"{", "\"">>

\* The five phases of SSEPhase.
SSEPhase == {"thinking", "tool_call", "other", "answer", "done"}

\* f"call_{int(time.time() * 1000000)}": "call_" and the digits of the clock,
\* which are written as one digit here.
GeneratedId == "call_1"

------------------------------------------------------------------------------
(* Emitted lines.  A chat.completion.chunk frame is described by the keys  *)
(* it holds at each level and by the values the handler puts there; the    *)
(* clock values of "id" and "created" are not modelled.  A key that is     *)
(* absent has the filler value of its type.                                *)

\* The skeleton that _create_content_chunk, _create_tool_start_chunk,
\* _create_tool_arguments_chunk and _create_tool_finish_chunk all write:
\* id, object, created, model, system_fingerprint and one choice with index,
\* delta, logprobs and finish_reason.
BaseChunk(model) ==
    [line |-> "json",
     top |-> {"id", "object", "created", "model", "system_fingerprint",
              "choices"},
     object |-> "chat.completion.chunk", model |-> model,
     system_fingerprint |-> "fp_zai_001",
     choice |-> {"index", "delta", "logprobs", "finish_reason"},
     choice_index |-> 0, delta |-> {}, role |-> None, content |-> <<>>,
     content_null |-> FALSE, tool_call |-> {}, tc_index |-> 0, tc_id |-> None,
     fn |-> {}, fn_name |-> None, fn_arguments |-> <<>>,
     finish_reason |-> None, usage |-> {}]

\* The literal line "data: [DONE]\n\n".
DONE_LINE ==
    [line |-> "[DONE]", top |-> {}, object |-> None, model |-> None,
     system_fingerprint |-> None, choice |-> {}, choice_index |-> 0,
     delta |-> {}, role |-> None, content |-> <<>>, content_null |-> FALSE,
     tool_call |-> {}, tc_index |-> 0, tc_id |-> None, fn |-> {},
     fn_name |-> None, fn_arguments |-> <<>>, finish_reason |-> None,
     usage |-> {}]

\* A run of the generator: the handler's fields h, every line yielded so far
\* (out), whether an exception is propagating (raised), and, for each tool
\* that became active, the number of lines that had been yielded by then
\* (started).
Emit(run, f) ==
    Only({
        [r EXCEPT !.out = Append(@, f)]
        : r \in {run}})

------------------------------------------------------------------------------
(* The argument repair pipeline.  A parsed JSON object is the sequence of  *)
(* its <<key, value>> pairs in insertion order, keys and values being      *)
(* texts: the tool arguments of the model are flat objects of strings.     *)

QUOTE == "\""
BACKSLASH == "\\"
HexDigits == {"0", "1", "2", "3", "4", "5", "6", "7", "8", "9",
              "a", "b", "c", "d", "e", "f", "A", "B", "C", "D", "E", "F"}

\* s.strip()
RECURSIVE Strip(_)
Strip(s0) ==
    Only({
        IF s = <<>> THEN s
        ELSE IF s[1] \in Whitespace THEN Strip(Tail(s))
        ELSE IF s[Len(s)] \in Whitespace THEN Strip(SubSeq(s, 1, Len(s) - 1))
        ELSE s
        : s \in {s0}})

\* key in obj
HasKey(obj, k) == \E i \in 1..Len(obj) : obj[i][1] = k

\* obj[k]
ValueOf(obj, k) == obj[CHOOSE i \in 1..Len(obj) : obj[i][1] = k][2]

\* obj[k] = v: an existing key keeps its place, a new one goes last.
Put(obj0, k, v0) ==
    Only({
        IF HasKey(obj, k)
        THEN [i \in 1..Len(obj) |-> IF obj[i][1] = k THEN <<k, v>> ELSE obj[i]]
        ELSE Append(obj, <<k, v>>)
        : obj \in {obj0}, v \in {v0}})

\* The code point written \uXXXX, as one character.
CodePoint(h1, h2, h3, h4) == "U+" \o h1 \o h2 \o h3 \o h4

\* The index of the first character at or after i that is not whitespace.
RECURSIVE SkipWs(_, _)
SkipWs(s, i0) ==
    Only({
        IF i <= Len(s) /\ s[i] \in Whitespace THEN SkipWs(s, i + 1) ELSE i
        : i \in {i0}})

\* The body of a JSON string from index j on (the opening quote is before
\* it): the decoded text and the index after the closing quote.  A string
\* the text ends in is closed where the text ends, as repair_json closes it.
RECURSIVE ScanString(_, _, _)
ScanString(s, j0, acc0) ==
    Only({
        IF j > Len(s) THEN [ok |-> TRUE, val |-> acc, next |-> j]
        ELSE IF s[j] = QUOTE THEN [ok |-> TRUE, val |-> acc, next |-> j + 1]
        ELSE IF s[j] # BACKSLASH THEN ScanString(s, j + 1, Append(acc, s[j]))
        ELSE IF j + 1 > Len(s) THEN [ok |-> TRUE, val |-> acc, next |-> j + 1]
        ELSE IF s[j + 1] \in {QUOTE, BACKSLASH, "/"}
             THEN ScanString(s, j + 2, Append(acc, s[j + 1]))
        ELSE IF s[j + 1] = "n" THEN ScanString(s, j + 2, Append(acc, "\n"))
        ELSE IF s[j + 1] = "t" THEN ScanString(s, j + 2, Append(acc, "\t"))
        ELSE IF /\ s[j + 1] = "u"
                /\ j + 5 <= Len(s)
                /\ \A k \in 2..5 : s[j + k] \in HexDigits
             THEN ScanString(s, j + 6,
                      Append(acc, CodePoint(s[j + 2], s[j + 3], s[j + 4], s[j + 5])))
        ELSE [ok |-> FALSE, val |-> acc, next |-> j]
        : j \in {j0}, acc \in {acc0}})

\* The members of a JSON object from index i on: "key": "value" pairs
\* separated by commas, up to the closing brace or, for a truncated text,
\* the end.  ScanMembers looks at the first character that is not
\* whitespace; the operators before it take the scan on from a key (ScanKey),
\* from the colon after it (ScanColon) and from its value (ScanValue).
RECURSIVE ScanMembers(_, _, _)

\* val is the value scanned for key.
ScanValue(s, obj0, key, val0) ==
    Only({
        IF ~val.ok THEN [ok |-> FALSE, obj |-> obj]
        ELSE ScanMembers(s, val.next, Put(obj, key, val.val))
        : obj \in {obj0}, val \in {val0}})

\* v is the index of the first character of the value of key.
ScanColon(s, obj, key, v0) ==
    Only({
        IF v > Len(s) THEN [ok |-> TRUE, obj |-> Put(obj, key, <<>>)]
        ELSE IF s[v] # QUOTE THEN [ok |-> FALSE, obj |-> obj]
        ELSE ScanValue(s, obj, key, ScanString(s, v + 1, <<>>))
        : v \in {v0}})

\* key is the key scanned, c the index of the character after it.
ScanKey(s, obj, key0, c0) ==
    Only({
        IF ~key.ok THEN [ok |-> FALSE, obj |-> obj]
        ELSE IF c > Len(s) THEN [ok |-> TRUE, obj |-> obj]
        ELSE IF s[c] # ":" THEN [ok |-> FALSE, obj |-> obj]
        ELSE ScanColon(s, obj, key.val, SkipWs(s, c + 1))
        : key \in {key0}, c \in {c0}})

\* a is the index of the first character of a member.
ScanMember(s, obj, a, key0) ==
    Only({
        ScanKey(s, obj, key, SkipWs(s, key.next))
        : key \in {key0}})

\* a is the index of the first character after the whitespace.
ScanAt(s, a0, obj0) ==
    Only({
        IF a > Len(s) THEN [ok |-> TRUE, obj |-> obj]
        ELSE IF s[a] = "}" THEN [ok |-> SkipWs(s, a + 1) > Len(s), obj |-> obj]
        ELSE IF s[a] = "," THEN ScanMembers(s, a + 1, obj)
        ELSE IF s[a] # QUOTE THEN [ok |-> FALSE, obj |-> obj]
        ELSE ScanMember(s, obj, a, ScanString(s, a + 1, <<>>))
        : a \in {a0}, obj \in {obj0}})

ScanMembers(s, i0, obj0) ==
    Only({
        ScanAt(s, SkipWs(s, i), obj)
        : i \in {i0}, obj \in {obj0}})

\* json.loads(repair_json(text)) for the texts of the model: a flat object of
\* strings, complete or cut off anywhere, parses to its members; any other
\* text gives no object, which the pipeline's except clause turns into "{}".
\* a is the index of the first character of text that is not whitespace.
LoadsAt(text0, a0) ==
    Only({
        IF a > Len(text) THEN [ok |-> FALSE, obj |-> <<>>]
        ELSE IF text[a] # "{" THEN [ok |-> FALSE, obj |-> <<>>]
        ELSE ScanMembers(text, a + 1, <<>>)
        : text \in {text0}, a \in {a0}})

repair_json_loads(text0) ==
    Only({
        LoadsAt(text, SkipWs(text, 1))
        : text \in {text0}})

\* A string as json.dumps(..., ensure_ascii=False) writes it.
RECURSIVE DumpString(_)
DumpString(v0) ==
    Only({
        IF v = <<>> THEN <<>>
        ELSE (IF v[1] = QUOTE THEN <<BACKSLASH, QUOTE>>
              ELSE IF v[1] = BACKSLASH THEN <<BACKSLASH, BACKSLASH>>
              ELSE IF v[1] = "\n" THEN <<BACKSLASH, "n">>
              ELSE IF v[1] = "\t" THEN <<BACKSLASH, "t">>
              ELSE IF v[1] = "\r" THEN <<BACKSLASH, "r">>
              ELSE <<v[1]>>) \o DumpString(Tail(v))
        : v \in {v0}})

\* The members of an object as json.dumps writes them: "k": "v", ", " between.
RECURSIVE DumpMembers(_)
DumpMembers(obj0) ==
    Only({
        IF obj = <<>> THEN <<>>
        ELSE <<QUOTE>> \o DumpString(obj[1][1]) \o <<QUOTE, ":", " ", QUOTE>>
             \o DumpString(obj[1][2]) \o <<QUOTE>>
             \o (IF Len(obj) > 1 THEN <<",", " ">> ELSE <<>>)
             \o DumpMembers(Tail(obj))
        : obj \in {obj0}})

\* json.dumps(args_obj, ensure_ascii=False)
json_dumps(obj0) ==
    Only({
        <<"{">> \o DumpMembers(obj) \o <<"}">>
        : obj \in {obj0}})

\* _preprocess_json_string, step 2: re.sub(r'([^\\])\\"([}\s,])', r'\1"\2', text),
\* matching left to right without overlap.  EscapedQuoteAt is the offset of
\* the first match at or after index i, or -1; the text up to a match is
\* copied as it is.
EscapedQuoteAt(s0, i0) ==
    Only({
        LowestOr({m \in (i - 1)..(Len(s) - 4) :
                     /\ s[m + 1] # BACKSLASH
                     /\ s[m + 2] = BACKSLASH
                     /\ s[m + 3] = QUOTE
                     /\ s[m + 4] \in ({"}", ","} \cup Whitespace)})
        : s \in {s0}, i \in {i0}})

RECURSIVE SubTrailingEscapedQuote(_, _)

\* at is the offset of the first match at or after index i, or -1.
SubFrom(s0, i0, at0) ==
    Only({
        IF at = -1 THEN SubSeq(s, i, Len(s))
        ELSE SubSeq(s, i, at) \o <<s[at + 1], QUOTE, s[at + 4]>>
             \o SubTrailingEscapedQuote(s, at + 5)
        : s \in {s0}, i \in {i0}, at \in {at0}})

SubTrailingEscapedQuote(s0, i0) ==
    Only({
        SubFrom(s, i, EscapedQuoteAt(s, i))
        : s \in {s0}, i \in {i0}})

_preprocess_json_string(text0) ==
    Only({
        LET braced == IF ~StartsWith(text, <<"{">>) /\ EndsWith(text, <<"}">>)
                      THEN <<"{">> \o text
                      ELSE text
        IN  SubTrailingEscapedQuote(braced, 1)
        : text \in {text0}})

KEY_CONTENT == <<"c", "o", "n", "t", "e", "n", "t">>
KEY_FILE_PATH == <<"f", "i", "l", "e", "_", "p", "a", "t", "h">>
KEY_PATH == <<"p", "a", "t", "h">>
KEY_DIRECTORY == <<"d", "i", "r", "e", "c", "t", "o", "r", "y">>
KEY_FOLDER == <<"f", "o", "l", "d", "e", "r">>
KEY_COMMAND == <<"c", "o", "m", "m", "a", "n", "d">>
OUTPUT_HTML == <<"o", "u", "t", "p", "u", "t", ".", "h", "t", "m", "l">>
A_HTML == <<"a", ".", "h", "t", "m", "l">>

\* The user messages of the model.
MSG_CREATE == "create a.html with <h1>Hi</h1>"
MSG_HELLO == "hello"

\* _extract_filename_from_context on the user messages of the model: the
\* second pattern finds a.html in MSG_CREATE; nothing matches the others.
_extract_filename_from_context(user_message) ==
    IF user_message = MSG_CREATE THEN A_HTML ELSE <<>>

\* decode_unicode_escapes: re.sub(r'\\u([0-9a-fA-F]{4})', chr, text)
RECURSIVE decode_unicode_escapes(_)
decode_unicode_escapes(v0) ==
    Only({
        IF v = <<>> THEN <<>>
        ELSE IF /\ Len(v) >= 6
                /\ v[1] = BACKSLASH
                /\ v[2] = "u"
                /\ \A k \in 3..6 : v[k] \in HexDigits
             THEN <<CodePoint(v[3], v[4], v[5], v[6])>>
                  \o decode_unicode_escapes(SubSeq(v, 7, Len(v)))
        ELSE <<v[1]>> \o decode_unicode_escapes(Tail(v))
        : v \in {v0}})

_fix_unicode_escaping(obj0) ==
    Only({
        [i \in 1..Len(obj) |-> <<obj[i][1], decode_unicode_escapes(obj[i][2])>>]
        : obj \in {obj0}})

\* The non-empty pieces of a text split on one character.
RECURSIVE NonEmpty(_)
NonEmpty(parts0) ==
    Only({
        IF parts = <<>> THEN <<>>
        ELSE (IF parts[1] # <<>> THEN <<parts[1]>> ELSE <<>>) \o NonEmpty(Tail(parts))
        : parts \in {parts0}})

\* sep.join(parts)
RECURSIVE Join(_, _)
Join(parts0, sep0) ==
    Only({
        IF parts = <<>> THEN <<>>
        ELSE IF Len(parts) = 1 THEN parts[1]
        ELSE parts[1] \o sep \o Join(Tail(parts), sep)
        : parts \in {parts0}, sep \in {sep0}})

\* The repair of one path value in _fix_path_escaping_in_args.
FixPath(path_value0) ==
    Only({
        IF /\ StartsWith(path_value, <<"C", ":">>)
           /\ Contains(path_value, <<BACKSLASH, BACKSLASH>>)
        THEN LET clean_parts == NonEmpty(Split(path_value, <<BACKSLASH>>))
             IN  IF Len(clean_parts) > 1 THEN Join(clean_parts, <<BACKSLASH>>)
                 ELSE path_value
        ELSE path_value
        : path_value \in {path_value0}})

_fix_path_escaping_in_args(obj0) ==
    Only({
        [i \in 1..Len(obj) |->
            IF obj[i][1] \in {KEY_FILE_PATH, KEY_PATH, KEY_DIRECTORY, KEY_FOLDER}
            THEN <<obj[i][1], FixPath(obj[i][2])>>
            ELSE obj[i]]
        : obj \in {obj0}})

\* re.search(r'\\""+$', command): a backslash and then two or more quotes,
\* up to the end; the offset of the backslash, or -1.
TrailingQuotesAt(command0) ==
    Only({
        LowestOr({i \in 0..(Len(command) - 1) :
                     /\ command[i + 1] = BACKSLASH
                     /\ Len(command) - i >= 3
                     /\ \A k \in (i + 2)..Len(command) : command[k] = QUOTE})
        : command \in {command0}})

\* The repair of the command value in _fix_command_quotes.
\* at is the offset of the trailing backslash and quotes, or -1.
FixCommandAt(command0, at0) ==
    Only({
        IF EndsWith(command, <<QUOTE, QUOTE>>) THEN SliceTo(command, -1)
        ELSE IF at # -1 THEN SliceTo(command, at) \o <<BACKSLASH, QUOTE>>
        ELSE command
        : command \in {command0}, at \in {at0}})

FixCommand(command0) ==
    Only({
        FixCommandAt(command, TrailingQuotesAt(command))
        : command \in {command0}})

_fix_command_quotes(obj0) ==
    Only({
        [i \in 1..Len(obj) |->
            IF obj[i][1] = KEY_COMMAND THEN <<obj[i][1], FixCommand(obj[i][2])>>
            ELSE obj[i]]
        : obj \in {obj0}})

_post_process_args(obj) ==
    _fix_command_quotes(_fix_path_escaping_in_args(_fix_unicode_escaping(obj)))

\* SynthesizePath without the default of the Write branch.
SynthesizePath_without_default(obj0, tool_name, file_path0) ==
    Only({
        IF /\ tool_name \in {"Write", "write_file", "create_file",
                              "str_replace_based_edit_tool", "str_replace_editor"}
           /\ HasKey(obj, KEY_CONTENT)
           /\ ~HasKey(obj, KEY_FILE_PATH)
           /\ (tool_name # "Write" => ~HasKey(obj, KEY_PATH))
           /\ file_path # <<>>
        THEN Put(obj,
                 IF tool_name = "str_replace_based_edit_tool"
                 THEN KEY_PATH ELSE KEY_FILE_PATH,
                 file_path)
        ELSE obj
        : obj \in {obj0}, file_path \in {file_path0}})

\* Step 3 of _fix_tool_arguments: the file path a file tool's arguments lack.
\* file_path is what _extract_filename_from_context returns.
SynthesizePath(obj0, tool_name, file_path0) ==
    Only({
        IF tool_name = "Write"
        THEN IF HasKey(obj, KEY_CONTENT) /\ ~HasKey(obj, KEY_FILE_PATH)
             THEN Put(obj, KEY_FILE_PATH,
                      IF file_path # <<>> THEN file_path ELSE OUTPUT_HTML)
             ELSE obj
        ELSE IF tool_name \in {"write_file", "create_file",
                               "str_replace_based_edit_tool", "str_replace_editor"}
        THEN IF /\ HasKey(obj, KEY_CONTENT)
                /\ ~HasKey(obj, KEY_FILE_PATH)
                /\ ~HasKey(obj, KEY_PATH)
                /\ file_path # <<>>
             THEN Put(obj,
                      IF tool_name = "str_replace_based_edit_tool"
                      THEN KEY_PATH ELSE KEY_FILE_PATH,
                      file_path)
             ELSE obj
        ELSE obj
        : obj \in {obj0}, file_path \in {file_path0}})

\* FixParsed with an except clause that returns an empty string.
FixParsed_without_default(parsed0, tool_name, user_message) ==
    Only({
        IF ~parsed.ok THEN <<>>
        ELSE json_dumps(_post_process_args(
                 SynthesizePath(parsed.obj, tool_name,
                                _extract_filename_from_context(user_message))))
        : parsed \in {parsed0}})

\* Steps 3 to 5 of _fix_tool_arguments, and its except clause: parsed is what
\* json.loads(repair_json(processed_args)) gave.
FixParsed(parsed0, tool_name, user_message) ==
    Only({
        IF ~parsed.ok THEN EMPTY_OBJECT
        ELSE json_dumps(_post_process_args(
                 SynthesizePath(parsed.obj, tool_name,
                                _extract_filename_from_context(user_message))))
        : parsed \in {parsed0}})

\* _fix_tool_arguments without the repair: the accumulated text as it is.
_fix_tool_arguments_unrepaired(raw_args0, tool_name, user_message) ==
    Only({
        IF raw_args = <<>> THEN EMPTY_OBJECT ELSE raw_args
        : raw_args \in {raw_args0}})

_fix_tool_arguments(raw_args0, tool_name, user_message) ==
    Only({
        IF raw_args = <<>> \/ raw_args = EMPTY_OBJECT THEN EMPTY_OBJECT
        ELSE FixParsed(repair_json_loads(_preprocess_json_string(Strip(raw_args))),
                       tool_name, user_message)
        : raw_args \in {raw_args0}})

------------------------------------------------------------------------------
(* The frames.  Creating a chunk and yielding it are one step here: each   *)
(* operator returns the run with the frame appended to out.                *)

\* _create_content_chunk without the has_sent_role test: every content frame
\* has the role.
_create_content_chunk_with_role(run, content) ==
    Only({
        LET chunk == [BaseChunk(r.h.model) EXCEPT
                         !.delta = {"content", "role"},
                         !.content = content,
                         !.role = "assistant"]
        IN  [Emit(r, chunk) EXCEPT !.h.has_sent_role = TRUE]
        : r \in {run}})

_create_content_chunk(run, content) ==
    Only({
        LET first == ~r.h.has_sent_role
            chunk == [BaseChunk(r.h.model) EXCEPT
                         !.delta = IF first THEN {"content", "role"} ELSE {"content"},
                         !.content = content,
                         !.role = IF first THEN "assistant" ELSE None]
        IN  [Emit(r, chunk) EXCEPT !.h.has_sent_role = TRUE]
        : r \in {run}})

_create_tool_start_chunk(run) ==
    Only({
        LET first == ~r.h.has_sent_role
            chunk == [BaseChunk(r.h.model) EXCEPT
                         !.delta = IF first THEN {"content", "tool_calls", "role"}
                                   ELSE {"content", "tool_calls"},
                         !.content_null = TRUE,
                         !.role = IF first THEN "assistant" ELSE None,
                         !.tool_call = {"index", "id", "type", "function"},
                         !.tc_index = r.h.content_index,
                         !.tc_id = r.h.tool_id,
                         !.fn = {"name", "arguments"},
                         !.fn_name = r.h.tool_name]
        IN  [Emit(r, chunk) EXCEPT !.h.has_sent_role = TRUE]
        : r \in {run}})

_create_tool_arguments_chunk(run, arguments) ==
    Only({
        Emit(r, [BaseChunk(r.h.model) EXCEPT
                    !.delta = {"tool_calls"},
                    !.tool_call = {"index", "function"},
                    !.tc_index = r.h.content_index,
                    !.fn = {"arguments"},
                    !.fn_arguments = arguments])
        : r \in {run}})

\* _create_tool_finish_chunk without lines 853 to 855: no usage is added.
_create_tool_finish_chunk_without_usage(run) ==
    Only({
        Emit(r, [BaseChunk(r.h.model) EXCEPT !.finish_reason = "tool_calls"])
        : r \in {run}})

_create_tool_finish_chunk(run) ==
    Only({
        LET chunk == [BaseChunk(r.h.model) EXCEPT !.finish_reason = "tool_calls"]
        IN  Emit(r, IF r.h.tool_call_usage # {}
                    THEN [chunk EXCEPT !.top = @ \cup {"usage"},
                                       !.usage = r.h.tool_call_usage]
                    ELSE chunk)
        : r \in {run}})

\* final_chunk of _process_done_phase.
FinalChunk(run, chunk_data) ==
    Only({
        LET chunk == [BaseChunk(r.h.model) EXCEPT
                         !.top = {"id", "object", "created", "model", "choices"},
                         !.system_fingerprint = None,
                         !.choice = {"index", "delta", "finish_reason"},
                         !.finish_reason = "stop"]
        IN  IF "usage" \in chunk_data.keys
            THEN [chunk EXCEPT !.top = @ \cup {"usage"}, !.usage = chunk_data.usage]
            ELSE chunk
        : r \in {run}})

------------------------------------------------------------------------------
(* The handler's methods.                                                  *)

_reset_tool_state(run) ==
    Only({
        [r EXCEPT !.h.tool_id = "", !.h.tool_name = "", !.h.tool_args = <<>>,
                  !.h.has_tool_call = FALSE]
        : r \in {run}})

\* _flush_content_buffer without lines 327 and 328: the buffer is yielded and
\* kept.
_flush_content_buffer_keeping(run) ==
    Only({
        IF r.h.content_buffer = <<>> THEN r
        ELSE IF r.h.stream THEN _create_content_chunk(r, r.h.content_buffer)
        ELSE r
        : r \in {run}})

\* _flush_content_buffer without the test of line 320: the buffer is yielded
\* in both modes.
_flush_content_buffer_in_any_mode(run) ==
    Only({
        IF r.h.content_buffer = <<>> THEN r
        ELSE [_create_content_chunk(r, r.h.content_buffer)
              EXCEPT !.h.content_buffer = <<>>, !.h.buffer_size = 0]
        : r \in {run}})

_flush_content_buffer(run) ==
    Only({
        IF r.h.content_buffer = <<>> THEN r
        ELSE LET sent == IF r.h.stream
                         THEN _create_content_chunk(r, r.h.content_buffer)
                         ELSE r
             IN  [sent EXCEPT !.h.content_buffer = <<>>, !.h.buffer_size = 0]
        : r \in {run}})

\* list(self._flush_content_buffer()) in _reset_all_state consumes the frames
\* of the flush without yielding them.
\* _reset_all_state without line 876: has_sent_role is kept.
_reset_all_state_keeping_role(run) ==
    Only({
        LET flushed == IF r.h.content_buffer # <<>>
                       THEN [_flush_content_buffer(r) EXCEPT !.out = r.out]
                       ELSE r
        IN  [_reset_tool_state(flushed) EXCEPT
                !.h.current_phase = None,
                !.h.tool_call_usage = {},
                !.h.stream_ended = FALSE,
                !.h.content_buffer = <<>>,
                !.h.buffer_size = 0,
                !.h.content_index = 0]
        : r \in {run}})

_reset_all_state(run) ==
    Only({
        LET flushed == IF r.h.content_buffer # <<>>
                       THEN [_flush_content_buffer(r) EXCEPT !.out = r.out]
                       ELSE r
        IN  [_reset_tool_state(flushed) EXCEPT
                !.h.current_phase = None,
                !.h.tool_call_usage = {},
                !.h.has_sent_role = FALSE,
                !.h.stream_ended = FALSE,
                !.h.content_buffer = <<>>,
                !.h.buffer_size = 0,
                !.h.content_index = 0]
        : r \in {run}})

\* _finish_current_tool without lines 373 to 383: the accumulated text is
\* sent as it is.
_finish_current_tool_sending_raw(run) ==
    Only({
        IF ~r.h.has_tool_call THEN r
        ELSE LET sent == IF r.h.stream
                         THEN _create_tool_finish_chunk(
                                  _create_tool_arguments_chunk(
                                      _create_tool_start_chunk(r), r.h.tool_args))
                         ELSE r
             IN  [_reset_tool_state(sent) EXCEPT
                     !.finished = Append(@, [tool_args |-> r.h.tool_args,
                                             tool_name |-> r.h.tool_name,
                                             mark |-> Len(r.out)])]
        : r \in {run}})

_finish_current_tool(run) ==
    Only({
        IF ~r.h.has_tool_call THEN r
        ELSE LET raw_args == IF \/ r.h.tool_args = <<>>
                                \/ r.h.tool_args \in {OPEN_BRACE, OPEN_BRACE_QUOTE}
                             THEN EMPTY_OBJECT
                             ELSE r.h.tool_args
                 fixed_args == _fix_tool_arguments(raw_args, r.h.tool_name,
                                                   r.h.user_message)
                 sent == IF r.h.stream
                         THEN _create_tool_finish_chunk(
                                  _create_tool_arguments_chunk(
                                      _create_tool_start_chunk(r), fixed_args))
                         ELSE r
             IN  [_reset_tool_state(sent) EXCEPT
                     !.finished = Append(@, [tool_args |-> r.h.tool_args,
                                             tool_name |-> r.h.tool_name,
                                             mark |-> Len(r.out)])]
        : r \in {run}})

\* _process_thinking_phase putting the text into the answer buffer instead
\* of yielding it.
_process_thinking_phase_buffered(run, delta_content) ==
    Only({
        IF delta_content = <<>> THEN r
        ELSE [r EXCEPT !.h.content_buffer = @ \o delta_content,
                       !.h.buffer_size = @ + Len(delta_content)]
        : r \in {run}})

_process_thinking_phase(run, delta_content) ==
    Only({
        IF delta_content = <<>> THEN r
        ELSE IF r.h.stream THEN _create_content_chunk(r, delta_content)
        ELSE r
        : r \in {run}})

------------------------------------------------------------------------------
(* The JSON bodies of the <glm_block> segments of the model.  A body is    *)
(* written in short: a letter between braces stands for the members of     *)
(* one document, and json_loads gives what json.loads makes of it, as far  *)
(* as _process_metadata_block looks at it.                                 *)

ARGS_A == <<"{", "\"", "a", "\"", ":", " ", "\"", "b">>

\* {"data": {"metadata": {"id": "call_a", "name": "A", "arguments": "{\"a\": \"b"}}}
BODY_A == <<"{", "A", "}">>
\* {"data": {"metadata": {"id": "call_b", "name": "B"}}}
BODY_B == <<"{", "B", "}">>
\* {"data": {"metadata": {"name": "N", "arguments": "{}"}}}
BODY_NOID == <<"{", "N", "}">>
\* {"data": {"metadata": {"id": "", "name": "E", "arguments": "{}"}}}
BODY_EMPTYID == <<"{", "E", "}">>
\* {"type": "mcp"}
BODY_NODATA == <<"{", "T", "}">>
\* {"data": {"type": "mcp"}}
BODY_NOMETA == <<"{", "M", "}">>
\* {"data": 5}
BODY_DATA5 == <<"{", "5", "}">>
\* {"data": {"metadata": ["A"]}}
BODY_METALIST == <<"{", "L", "}">>

\* {"data":   (a payload cut off: not valid JSON)
BODY_INVALID == <<"{", "?">>

\* {"content": "x"}
ARGS_CONTENT ==
    <<"{", "\"", "c", "o", "n", "t", "e", "n", "t", "\"", ":", " ", "\"", "x", "\"", "}">>
\* {"file_path": "b.txt", "content": "x"}
ARGS_PATH_CONTENT ==
    <<"{", "\"", "f", "i", "l", "e", "_", "p", "a", "t", "h", "\"", ":", " ",
      "\"", "b", ".", "t", "x", "t", "\"", ",", " ",
      "\"", "c", "o", "n", "t", "e", "n", "t", "\"", ":", " ", "\"", "x", "\"", "}">>
\* [1]
ARGS_LIST == <<"[", "1", "]">>

\* {"data": {"metadata": {"id": "call_w", "name": "Write", "arguments": "{\"content\": \"x\"}"}}}
BODY_WRITE == <<"{", "W", "}">>
\* The same with the arguments {"file_path": "b.txt", "content": "x"}
BODY_WRITE_PATH == <<"{", "P", "}">>
\* The same as BODY_WRITE with the name write_file
BODY_WRITE_FILE == <<"{", "F", "}">>
\* The same as BODY_WRITE with the name create_file
BODY_CREATE_FILE == <<"{", "C", "}">>
\* The same as BODY_WRITE with the arguments [1]
BODY_WRITE_LIST == <<"{", "X", "}">>

\* {"t": "\u4e2d"}
ARGS_UNICODE ==
    <<"{", "\"", "t", "\"", ":", " ", "\"", "\\", "u", "4", "e", "2", "d",
      "\"", "}">>
\* The block of tool A with these arguments.
BODY_UNICODE == <<"{", "u", "}">>
\* {"q": "a\"b"}
ARGS_QUOTE ==
    <<"{", "\"", "q", "\"", ":", " ", "\"", "a", "\\", "\"", "b", "\"", "}">>
\* The block of tool A with these arguments.
BODY_QUOTE == <<"{", "q", "}">>
\* {"path": "C:\\\\a\\\\b"}
ARGS_WINDOWS_PATH ==
    <<"{", "\"", "p", "a", "t", "h", "\"", ":", " ", "\"", "C", ":", "\\",
      "\\", "\\", "\\", "a", "\\", "\\", "\\", "\\", "b", "\"", "}">>
\* The block of tool A with these arguments.
BODY_WINDOWS_PATH == <<"{", "p", "}">>
\* {"command": "echo \"\""}
ARGS_COMMAND ==
    <<"{", "\"", "c", "o", "m", "m", "a", "n", "d", "\"", ":", " ", "\"",
      "e", "c", "h", "o", " ", "\\", "\"", "\\", "\"", "\"", "}">>
\* The block of tool A with these arguments.
BODY_COMMAND == <<"{", "k", "}">>
\* {"n": "a\nb"}
ARGS_NEWLINE ==
    <<"{", "\"", "n", "\"", ":", " ", "\"", "a", "\\", "n", "b", "\"", "}">>
\* The block of tool A with these arguments.
BODY_NEWLINE == <<"{", "n", "}">>
\*  {"a": "b"} 
ARGS_PADDED ==
    <<" ", "{", "\"", "a", "\"", ":", " ", "\"", "b", "\"", "}", " ">>
\* The block of tool A with these arguments.
BODY_PADDED == <<"{", "w", "}">>

\* {"data": {"metadata": {"id": "call_0", "name": "A", "arguments": ""}}}
BODY_NOARGS == <<"{", "0", "}">>
\* {"data": {"metadata": {"id": "call_1", "name": "Write", "arguments": "{"}}}
BODY_BRACE == <<"{", "1", "}">>
\* {"data": {"metadata": {"id": "call_2", "name": "A", "arguments": "{\""}}}
BODY_BRACE_QUOTE == <<"{", "2", "}">>

\* json.loads of a block whose metadata has an id, a name and arguments.
Metadata(id, name, arguments) ==
    [kind |-> "metadata", keys |-> {"id", "name", "arguments"},
     id |-> id, name |-> name, arguments |-> arguments]

NoMetadata(kind) ==
    [kind |-> kind, keys |-> {}, id |-> None, name |-> None, arguments |-> <<>>]

\* kind: "metadata" (data.metadata is an object with the keys given),
\* "no_data" (an object without "data"), "no_metadata" (data is an object
\* without "metadata"), "data_scalar" (data is a number: "metadata" in 5 is a
\* TypeError), "metadata_list" (metadata has no get: AttributeError),
\* "invalid" (JSONDecodeError).
json_loads(json_content) ==
    CASE json_content = BODY_A ->
            [kind |-> "metadata", keys |-> {"id", "name", "arguments"},
             id |-> "call_a", name |-> "A", arguments |-> ARGS_A]
      [] json_content = BODY_B ->
            [kind |-> "metadata", keys |-> {"id", "name"},
             id |-> "call_b", name |-> "B", arguments |-> <<>>]
      [] json_content = BODY_NOID ->
            [kind |-> "metadata", keys |-> {"name", "arguments"},
             id |-> None, name |-> "N", arguments |-> EMPTY_OBJECT]
      [] json_content = BODY_EMPTYID ->
            [kind |-> "metadata", keys |-> {"id", "name", "arguments"},
             id |-> "", name |-> "E", arguments |-> EMPTY_OBJECT]
      [] json_content = BODY_WRITE -> Metadata("call_w", "Write", ARGS_CONTENT)
      [] json_content = BODY_WRITE_PATH ->
            Metadata("call_p", "Write", ARGS_PATH_CONTENT)
      [] json_content = BODY_WRITE_FILE ->
            Metadata("call_f", "write_file", ARGS_CONTENT)
      [] json_content = BODY_CREATE_FILE ->
            Metadata("call_c", "create_file", ARGS_CONTENT)
      [] json_content = BODY_WRITE_LIST -> Metadata("call_x", "Write", ARGS_LIST)
      [] json_content = BODY_UNICODE -> Metadata("call_u", "A", ARGS_UNICODE)
      [] json_content = BODY_QUOTE -> Metadata("call_q", "A", ARGS_QUOTE)
      [] json_content = BODY_WINDOWS_PATH -> Metadata("call_p", "A", ARGS_WINDOWS_PATH)
      [] json_content = BODY_COMMAND -> Metadata("call_k", "A", ARGS_COMMAND)
      [] json_content = BODY_NEWLINE -> Metadata("call_n", "A", ARGS_NEWLINE)
      [] json_content = BODY_PADDED -> Metadata("call_w", "A", ARGS_PADDED)
      [] json_content = BODY_NOARGS -> Metadata("call_0", "A", <<>>)
      [] json_content = BODY_BRACE -> Metadata("call_1", "Write", OPEN_BRACE)
      [] json_content = BODY_BRACE_QUOTE ->
            Metadata("call_2", "A", OPEN_BRACE_QUOTE)
      [] json_content = BODY_NODATA -> NoMetadata("no_data")
      [] json_content = BODY_NOMETA -> NoMetadata("no_metadata")
      [] json_content = BODY_DATA5 -> NoMetadata("data_scalar")
      [] json_content = BODY_METALIST -> NoMetadata("metadata_list")
      [] OTHER -> NoMetadata("invalid")

------------------------------------------------------------------------------

\* StartTool without the else of lines 243-245: without arguments in the
\* metadata, tool_args stays as it was.
StartTool_without_default(run, metadata) ==
    Only({
        [r EXCEPT
            !.h.tool_id = IF "id" \in metadata.keys THEN metadata.id
                          ELSE GeneratedId,
            !.h.tool_name = IF "name" \in metadata.keys THEN metadata.name
                            ELSE "unknown",
            !.h.has_tool_call = TRUE,
            !.h.tool_args = IF "arguments" \in metadata.keys THEN metadata.arguments
                            ELSE @,
            !.started = Append(@, Len(r.out))]
        : r \in {run}})

\* StartTool yielding the tool-start frame in stream mode as soon as the
\* metadata is read.
StartTool_sending_start(run, metadata) ==
    Only({
        IF r.h.stream THEN _create_tool_start_chunk(r) ELSE r
        : r \in {[run EXCEPT
                     !.h.tool_id = IF "id" \in metadata.keys THEN metadata.id
                                   ELSE GeneratedId,
                     !.h.tool_name = IF "name" \in metadata.keys THEN metadata.name
                                     ELSE "unknown",
                     !.h.has_tool_call = TRUE,
                     !.h.tool_args = IF "arguments" \in metadata.keys
                                     THEN metadata.arguments
                                     ELSE EMPTY_OBJECT,
                     !.started = Append(@, Len(run.out))]}})

\* The assignments of _process_metadata_block for a metadata object.
StartTool(run, metadata) ==
    Only({
        [r EXCEPT
            !.h.tool_id = IF "id" \in metadata.keys THEN metadata.id
                          ELSE GeneratedId,
            !.h.tool_name = IF "name" \in metadata.keys THEN metadata.name
                            ELSE "unknown",
            !.h.has_tool_call = TRUE,
            !.h.tool_args = IF "arguments" \in metadata.keys THEN metadata.arguments
                            ELSE EMPTY_OBJECT,
            !.started = Append(@, Len(r.out))]
        : r \in {run}})

\* _process_metadata_block from json.loads on: metadata_obj is its result.
UseMetadata(run, metadata_obj) ==
    Only({
        IF metadata_obj.kind = "metadata" THEN StartTool(r, metadata_obj)
        ELSE IF metadata_obj.kind = "data_scalar" THEN [r EXCEPT !.raised = TRUE]
        ELSE r
        : r \in {run}})

\* start_pos = block.find('>'), end_pos = block.rfind('</glm_block>')
MetadataBetween(r, block, start_pos, end_pos) ==
    IF start_pos = -1 \/ end_pos = -1 THEN r
    ELSE UseMetadata(r, json_loads(Slice(block, start_pos + 1, end_pos)))

_process_metadata_block(r, block) ==
    MetadataBetween(r, block, Find(block, GT), RFind(block, GLM_CLOSE))

\* AppendBeforeResult without the - 3 of line 179: the text up to the key.
AppendBeforeResult_untrimmed(run, edit_content, result_pos) ==
    Only({
        IF result_pos > 0
        THEN [r EXCEPT !.h.tool_args = @ \o SliceTo(edit_content, result_pos)]
        ELSE r
        : r \in {run}})

\* One round of the loop of _handle_glm_blocks, for blocks[index].
\* The first block while a tool is active: result_pos is
\* edit_content.find('"result"').
AppendBeforeResult(run, edit_content, result_pos) ==
    Only({
        IF result_pos > 0
        THEN [r EXCEPT !.h.tool_args = @ \o SliceTo(edit_content, result_pos - 3)]
        ELSE r
        : r \in {run}})

\* One round of the loop of _handle_glm_blocks, for blocks[index].
\* HandleBlock without lines 194 to 197: a new tool replaces the active one,
\* which is not finalized.
HandleBlock_without_finish(run, edit_content, block, index) ==
    Only({
        IF IsBlank(block) THEN r
        ELSE IF index = 0
        THEN IF r.h.has_tool_call
             THEN AppendBeforeResult(r, edit_content, Find(edit_content, RESULT_KEY))
             ELSE r
        ELSE IF ~Contains(block, GLM_CLOSE) THEN r
        ELSE _process_metadata_block(r, block)
        : r \in {run}})

HandleBlock(run, edit_content, block, index) ==
    Only({
        IF IsBlank(block) THEN r
        ELSE IF index = 0
        THEN IF r.h.has_tool_call
             THEN AppendBeforeResult(r, edit_content, Find(edit_content, RESULT_KEY))
             ELSE r
        ELSE IF ~Contains(block, GLM_CLOSE) THEN r
        ELSE _process_metadata_block(_finish_current_tool(r), block)
        : r \in {run}})

\* The loop of _handle_glm_blocks from blocks[index] on; an exception ends it.
RECURSIVE HandleBlocksFrom(_, _, _, _)
HandleBlocksFrom(r, edit_content, blocks, index) ==
    IF index >= Len(blocks) \/ r.raised THEN r
    ELSE HandleBlocksFrom(
             HandleBlock(r, edit_content, blocks[index + 1], index),
             edit_content, blocks, index + 1)

_handle_glm_blocks(r, edit_content) ==
    HandleBlocksFrom(r, edit_content, Split(edit_content, GLM_OPEN), 0)

\* AppendFragment with >= for > at line 156: a separator at offset 0 cuts
\* the whole payload off.
AppendFragment_from_zero(run, edit_content, result_pos) ==
    Only({
        IF result_pos >= 0
        THEN [r EXCEPT !.h.tool_args = @ \o SliceTo(edit_content, result_pos)]
        ELSE [r EXCEPT !.h.tool_args = @ \o edit_content]
        : r \in {run}})

\* The continuation of the arguments: result_pos is
\* edit_content.find('", "result"').
AppendFragment(run, edit_content, result_pos) ==
    Only({
        IF result_pos > 0
        THEN [r EXCEPT !.h.tool_args = @ \o SliceTo(edit_content, result_pos)]
        ELSE [r EXCEPT !.h.tool_args = @ \o edit_content]
        : r \in {run}})

_process_tool_call_phase(r, edit_content) ==
    IF edit_content = <<>> THEN r
    ELSE IF Contains(edit_content, GLM_OPEN)
    THEN _handle_glm_blocks(r, edit_content)
    ELSE IF r.h.has_tool_call
    THEN AppendFragment(r, edit_content, Find(edit_content, RESULT_SEP))
    ELSE r

\* _process_other_phase after the usage is saved.
\* DetectToolEnd with the reset its last comment warns against: stream_ended
\* does not stay true.
DetectToolEnd_with_reset(run, edit_content) ==
    Only({
        IF /\ r.h.has_tool_call
           /\ edit_content # <<>>
           /\ StartsWith(edit_content, NULL_COMMA)
        THEN _reset_all_state(
                 [Emit(_finish_current_tool(r), DONE_LINE) EXCEPT !.h.stream_ended = TRUE])
        ELSE r
        : r \in {run}})

DetectToolEnd(run, edit_content) ==
    Only({
        IF /\ r.h.has_tool_call
           /\ edit_content # <<>>
           /\ StartsWith(edit_content, NULL_COMMA)
        THEN [Emit(_finish_current_tool(r), DONE_LINE) EXCEPT !.h.stream_ended = TRUE]
        ELSE r
        : r \in {run}})

\* _process_other_phase without the test of line 257: an empty usage is
\* stored too.
_process_other_phase_storing_always(r, usage, edit_content) ==
    DetectToolEnd([r EXCEPT !.h.tool_call_usage = usage], edit_content)

_process_other_phase(r, usage, edit_content) ==
    DetectToolEnd(IF usage # {} THEN [r EXCEPT !.h.tool_call_usage = usage]
                  ELSE r,
                  edit_content)

max_buffer_size == 100

\* The sentence ends of should_flush: the ideographic full stop and the
\* fullwidth exclamation and question marks.
SentenceEnds == {"U+3002", "U+FF01", "U+FF1F"}

\* elapsed: time.time() - self.last_flush_time >= self.flush_interval, which
\* the clock decides.
\* _process_answer_phase with > for >= at line 304: a buffer of exactly
\* max_buffer_size characters is not flushed.
_process_answer_phase_above_size(run, delta_content, elapsed) ==
    Only({
        IF delta_content = <<>> THEN r
        ELSE LET added == [r EXCEPT
                              !.h.content_buffer = @ \o delta_content,
                              !.h.buffer_size = @ + Len(delta_content)]
                 should_flush ==
                     \/ added.h.buffer_size > max_buffer_size
                     \/ elapsed
                     \/ \E i \in 1..Len(delta_content) :
                            delta_content[i] \in ({"\n"} \cup SentenceEnds)
             IN  IF should_flush /\ added.h.content_buffer # <<>>
                 THEN _flush_content_buffer(added)
                 ELSE added
        : r \in {run}})

_process_answer_phase(run, delta_content, elapsed) ==
    Only({
        IF delta_content = <<>> THEN r
        ELSE LET added == [r EXCEPT
                              !.h.content_buffer = @ \o delta_content,
                              !.h.buffer_size = @ + Len(delta_content)]
                 should_flush ==
                     \/ added.h.buffer_size >= max_buffer_size
                     \/ elapsed
                     \/ \E i \in 1..Len(delta_content) :
                            delta_content[i] \in ({"\n"} \cup SentenceEnds)
             IN  IF should_flush /\ added.h.content_buffer # <<>>
                 THEN _flush_content_buffer(added)
                 ELSE added
        : r \in {run}})

\* The end of _process_done_phase: the final chunk and [DONE] in stream mode,
\* then the reset.
\* SendStreamEnd without line 363: the final chunk is not followed by [DONE].
SendStreamEnd_without_done(run, chunk_data) ==
    Only({
        _reset_all_state(IF r.h.stream
                         THEN Emit(r, FinalChunk(r, chunk_data))
                         ELSE r)
        : r \in {run}})

\* SendStreamEnd with lines 362 and 363 exchanged: [DONE] comes first.
SendStreamEnd_done_first(run, chunk_data) ==
    Only({
        _reset_all_state(IF r.h.stream
                         THEN Emit(Emit(r, DONE_LINE), FinalChunk(r, chunk_data))
                         ELSE r)
        : r \in {run}})

SendStreamEnd(run, chunk_data) ==
    Only({
        _reset_all_state(IF r.h.stream
                         THEN Emit(Emit(r, FinalChunk(r, chunk_data)), DONE_LINE)
                         ELSE r)
        : r \in {run}})

\* _process_done_phase without lines 344 to 363: nothing marks the end.
_process_done_phase_without_end(r, chunk_data) ==
    _reset_all_state(_finish_current_tool(_flush_content_buffer(r)))

\* _process_done_phase without lines 339 to 341: an active tool is not
\* finalized before the end is sent.
_process_done_phase_without_finish(r, chunk_data) ==
    SendStreamEnd(_flush_content_buffer(r), chunk_data)

_process_done_phase(r, chunk_data) ==
    SendStreamEnd(_finish_current_tool(_flush_content_buffer(r)), chunk_data)

\* chunk_data.get(key) and chunk_data.get(key, default)
GetPhase(chunk_data) ==
    IF "phase" \in chunk_data.keys THEN chunk_data.phase ELSE None
GetEditContent(chunk_data) ==
    IF "edit_content" \in chunk_data.keys THEN chunk_data.edit_content ELSE <<>>
GetDeltaContent(chunk_data) ==
    IF "delta_content" \in chunk_data.keys THEN chunk_data.delta_content ELSE <<>>
GetUsage(chunk_data) ==
    IF "usage" \in chunk_data.keys THEN chunk_data.usage ELSE {}

\* The dispatch of process_sse_chunk on the phase.
Dispatch(r, phase, chunk_data, elapsed) ==
    CASE phase = "thinking" ->
            _process_thinking_phase(r, GetDeltaContent(chunk_data))
      [] phase = "tool_call" ->
            _process_tool_call_phase(r, GetEditContent(chunk_data))
      [] phase = "other" ->
            _process_other_phase(r, GetUsage(chunk_data),
                                 GetEditContent(chunk_data))
      [] phase = "answer" ->
            _process_answer_phase(r, GetDeltaContent(chunk_data), elapsed)
      [] phase = "done" -> _process_done_phase(r, chunk_data)
      [] OTHER -> r

\* process_sse_chunk from its try block on.  The except clause swallows an
\* exception: what was yielded and assigned before it stays.
\* ProcessChunk without lines 88 to 90: a chunk without a phase goes on to
\* the phase change and the dispatch.
ProcessChunk_unvalidated(run, phase, chunk_data, elapsed) ==
    Only({
        [Dispatch(IF phase # r.h.current_phase
                  THEN [_flush_content_buffer(r) EXCEPT !.h.current_phase = phase]
                  ELSE r,
                  phase, chunk_data, elapsed)
         EXCEPT !.raised = FALSE]
        : r \in {run}})

\* ProcessChunk without lines 94 to 96: a phase change does not flush.
ProcessChunk_without_flush(run, phase, chunk_data, elapsed) ==
    Only({
        IF phase = None \/ phase = "" THEN r
        ELSE [Dispatch(IF phase # r.h.current_phase
                       THEN [r EXCEPT !.h.current_phase = phase]
                       ELSE r,
                       phase, chunk_data, elapsed)
              EXCEPT !.raised = FALSE]
        : r \in {run}})

\* The except clause of lines 124 to 127, had it ended the stream.
EndOnError(r) ==
    IF r.raised THEN [r EXCEPT !.raised = FALSE, !.h.stream_ended = TRUE]
    ELSE r

\* ProcessChunk with an except clause that ends the stream.
ProcessChunk_ending_on_error(run, phase, chunk_data, elapsed) ==
    Only({
        IF phase = None \/ phase = "" THEN r
        ELSE EndOnError(
                 Dispatch(IF phase # r.h.current_phase
                          THEN [_flush_content_buffer(r) EXCEPT !.h.current_phase = phase]
                          ELSE r,
                          phase, chunk_data, elapsed))
        : r \in {run}})

ProcessChunk(run, phase, chunk_data, elapsed) ==
    Only({
        IF phase = None \/ phase = "" THEN r
        ELSE [Dispatch(IF phase # r.h.current_phase
                       THEN [_flush_content_buffer(r) EXCEPT !.h.current_phase = phase]
                       ELSE r,
                       phase, chunk_data, elapsed)
              EXCEPT !.raised = FALSE]
        : r \in {run}})

\* process_sse_chunk without its first statement, the return on stream_ended.
process_sse_chunk_unguarded(r, chunk_data, elapsed) ==
    ProcessChunk(r, GetPhase(chunk_data), chunk_data, elapsed)

\* process_sse_chunk, drained by its consumer.
process_sse_chunk(r, chunk_data, elapsed) ==
    IF r.h.stream_ended THEN r
    ELSE ProcessChunk(r, GetPhase(chunk_data), chunk_data, elapsed)

------------------------------------------------------------------------------
(* The upstream chunks of the model.                                       *)

MkChunk(keys, phase, edit_content, delta_content, usage) ==
    [keys |-> keys, phase |-> phase, edit_content |-> edit_content,
     delta_content |-> delta_content, usage |-> usage]

\* <glm_block x>body</glm_block>
Block(body) == GLM_OPEN \o <<"x", ">">> \o body \o GLM_CLOSE

USAGE_1 == {<<"total_tokens", 7>>}
USAGE_2 == {<<"total_tokens", 9>>}

ToolCall(edit_content) ==
    MkChunk({"phase", "edit_content"}, "tool_call", edit_content, <<>>, {})

TH_TEXT == MkChunk({"phase", "delta_content"}, "thinking", <<>>, <<"t", "h">>, {})
AN_TEXT == MkChunk({"phase", "delta_content"}, "answer", <<>>, <<"h", "i">>, {})
TC_A == ToolCall(Block(BODY_A))
TC_AB == ToolCall(Block(BODY_A) \o Block(BODY_B))
TC_NOID == ToolCall(Block(BODY_NOID))
TC_EMPTYID == ToolCall(Block(BODY_EMPTYID))
TC_FRAGMENT == ToolCall(<<"c">>)
OT_NULL == MkChunk({"phase", "edit_content", "usage"}, "other", <<"n", "u", "l", "l", ",", " ", "\"", "x", "\"">>,
                   <<>>, USAGE_1)
OT_USAGE == MkChunk({"phase", "usage"}, "other", <<>>, <<>>, USAGE_2)
DN_USAGE == MkChunk({"phase", "usage"}, "done", <<>>, <<>>, USAGE_1)
UNKNOWN == MkChunk({"phase", "delta_content"}, "finish", <<>>, <<"t", "h">>, {})
NO_PHASE == MkChunk({"delta_content"}, None, <<>>, <<"t", "h">>, {})
NO_CHUNK == MkChunk({}, None, <<>>, <<>>, {})

EMPTY_PHASE == MkChunk({"phase", "delta_content"}, "", <<>>, <<"t", "h">>, {})
TH_EMPTY == MkChunk({"phase", "delta_content"}, "thinking", <<>>, <<>>, {})
AN_EMPTY == MkChunk({"phase", "delta_content"}, "answer", <<>>, <<>>, {})
AN_ONE == MkChunk({"phase", "delta_content"}, "answer", <<>>, <<"a">>, {})
\* One character less than the buffer holds.
AN_99 ==
    MkChunk({"phase", "delta_content"}, "answer", <<>>,
            [i \in 1..(max_buffer_size - 1) |-> "x"], {})
AN_NEWLINE == MkChunk({"phase", "delta_content"}, "answer", <<>>, <<"a", "\n", "b">>, {})
AN_SENTENCE == MkChunk({"phase", "delta_content"}, "answer", <<>>, <<"a", "U+3002">>, {})
AN_EXCLAIM == MkChunk({"phase", "delta_content"}, "answer", <<>>, <<"U+FF01">>, {})
AN_QUESTION == MkChunk({"phase", "delta_content"}, "answer", <<>>, <<"U+FF1F", "b">>, {})

------------------------------------------------------------------------------
(* The state: one handler, the lines it has yielded, and the upstream; and *)
(* a second handler of the same process, with the lines it has yielded.    *)

VARIABLES
    handler,    \* the fields of the SSEToolHandler object
    out,        \* every line yielded so far, in order
    started,    \* for each tool made active: Len(out) at that moment
    fed,        \* the number of chunks fed so far
    limit,      \* the number of chunks the upstream sends before its last done
    last,       \* the latest call: its chunk, the handler and Len(out) before it
    finished,   \* for each tool finalized: its fields and Len(out) at that moment
    history,    \* every call so far: its chunk, its clock, stream_ended before
                \* it, Len(out) after it
    upstream,   \* which upstream feeds the handler
    peer        \* a second SSEToolHandler object: its fields, the lines it has
                \* yielded and the calls made on it

vars ==
    <<handler, out, started, fed, limit, last, finished, history, upstream, peer>>

TC_WRITE == ToolCall(Block(BODY_WRITE))
TC_WRITE_PATH == ToolCall(Block(BODY_WRITE_PATH))
TC_WRITE_FILE == ToolCall(Block(BODY_WRITE_FILE))
TC_CREATE_FILE == ToolCall(Block(BODY_CREATE_FILE))
TC_WRITE_LIST == ToolCall(Block(BODY_WRITE_LIST))

TC_INVALID == ToolCall(Block(BODY_INVALID))
TC_NODATA == ToolCall(Block(BODY_NODATA))
TC_NOMETA == ToolCall(Block(BODY_NOMETA))
TC_DATA5 == ToolCall(Block(BODY_DATA5))
TC_INVALID_A == ToolCall(Block(BODY_INVALID) \o Block(BODY_A))
TC_NODATA_A == ToolCall(Block(BODY_NODATA) \o Block(BODY_A))
TC_NOMETA_A == ToolCall(Block(BODY_NOMETA) \o Block(BODY_A))
TC_DATA5_A == ToolCall(Block(BODY_DATA5) \o Block(BODY_A))

TC_UNICODE == ToolCall(Block(BODY_UNICODE))
TC_QUOTE == ToolCall(Block(BODY_QUOTE))
TC_WINDOWS_PATH == ToolCall(Block(BODY_WINDOWS_PATH))
TC_COMMAND == ToolCall(Block(BODY_COMMAND))
TC_NEWLINE == ToolCall(Block(BODY_NEWLINE))
TC_PADDED == ToolCall(Block(BODY_PADDED))
TC_NOARGS == ToolCall(Block(BODY_NOARGS))
TC_BRACE == ToolCall(Block(BODY_BRACE))
TC_BRACE_QUOTE == ToolCall(Block(BODY_BRACE_QUOTE))

\* The texts of the scenario of spec 9: "reasoning…" and "Hello."
REASONING == <<"r", "e", "a", "s", "o", "n", "i", "n", "g", "U+2026">>
HELLO == <<"H", "e", "l", "l", "o", ".">>
TH_REASONING == MkChunk({"phase", "delta_content"}, "thinking", <<>>, REASONING, {})
AN_HELLO == MkChunk({"phase", "delta_content"}, "answer", <<>>, HELLO, {})

\* Continuations of a tool's arguments: c, then c", "result": 1 (the
\* separator at offset 1), then ", "result": 1 (the separator at offset 0).
TC_FRAGMENT_RESULT == ToolCall(<<"c", "\"", ",", " ", "\"", "r", "e", "s", "u", "l", "t", "\"", ":", " ", "1">>)
TC_RESULT_FIRST == ToolCall(<<"\"", ",", " ", "\"", "r", "e", "s", "u", "l", "t", "\"", ":", " ", "1">>)

\* Text before a block: d", "result": "" (the key at offset 4), e (no key),
\* "result" (the key at offset 0) and f"result" (the key at offset 1).
TC_TAIL_B == ToolCall(<<"d", "\"", ",", " ", "\"", "r", "e", "s", "u", "l", "t", "\"", ":", " ", "\"", "\"">> \o Block(BODY_B))
TC_NOKEY_B == ToolCall(<<"e">> \o Block(BODY_B))
TC_KEY_FIRST_B == ToolCall(RESULT_KEY \o Block(BODY_B))
TC_KEY_NEAR_B == ToolCall(<<"f">> \o RESULT_KEY \o Block(BODY_B))

\* Chunks with and without a usage key, and with an empty usage.
OT_NULL_PLAIN ==
    MkChunk({"phase", "edit_content"}, "other", <<"n", "u", "l", "l", ",">>, <<>>, {})
OT_EMPTY_USAGE == MkChunk({"phase", "usage"}, "other", <<>>, <<>>, {})
\* An other chunk whose edit_content is "null" without the comma.
OT_NOT_NULL ==
    MkChunk({"phase", "edit_content", "usage"}, "other", <<"n", "u", "l", "l">>, <<>>, USAGE_2)
DN_PLAIN == MkChunk({"phase"}, "done", <<>>, <<>>, {})
DN_EMPTY_USAGE == MkChunk({"phase", "usage"}, "done", <<>>, <<>>, {})
DN_USAGE_2 == MkChunk({"phase", "usage"}, "done", <<>>, <<>>, USAGE_2)

\* What an upstream sends, by the kind of its chunks.  The upstream "tools"
\* sends tool calls of every shape and little text, the upstream "text"
\* answer text of every shape and one tool call, the upstream "files" calls
\* of the tools that write files, the upstream "blocks" blocks without tool
\* metadata, alone and before a block that has it, the upstream "usage"
\* chunks with and without usage, the upstream "pair" one chunk of each
\* kind while a second handler is fed too, the upstream "args" tool calls
\* whose arguments have escapes, paths, commands and text outside ASCII, the
\* upstream "scenario" the chunks of the scenario of spec 9, the upstream
\* "fragments" continuations of a tool's arguments, alone and before a block.
ThinkingChunks ==
    IF upstream = "text" THEN {TH_TEXT, TH_EMPTY}
    ELSE IF upstream = "scenario" THEN {TH_REASONING}
    ELSE {TH_TEXT}
AnswerChunks ==
    IF upstream = "text"
    THEN {AN_TEXT, AN_EMPTY, AN_ONE, AN_99, AN_NEWLINE, AN_SENTENCE, AN_EXCLAIM,
          AN_QUESTION}
    ELSE IF upstream = "scenario" THEN {AN_HELLO}
    ELSE {AN_TEXT}
ToolCallChunks ==
    IF upstream \in {"text", "usage", "pair", "scenario", "other"} THEN {TC_A}
    ELSE IF upstream = "fragments"
    THEN {TC_A, TC_FRAGMENT, TC_FRAGMENT_RESULT, TC_RESULT_FIRST, TC_TAIL_B,
          TC_NOKEY_B, TC_KEY_FIRST_B, TC_KEY_NEAR_B}
    ELSE IF upstream = "trivial"
    THEN {TC_A, TC_NOARGS, TC_BRACE, TC_BRACE_QUOTE, TC_FRAGMENT}
    ELSE IF upstream = "args"
    THEN {TC_A, TC_WRITE_LIST, TC_UNICODE, TC_QUOTE, TC_WINDOWS_PATH, TC_COMMAND,
          TC_NEWLINE, TC_PADDED}
    ELSE IF upstream = "files"
    THEN {TC_WRITE, TC_WRITE_PATH, TC_WRITE_FILE, TC_CREATE_FILE, TC_WRITE_LIST}
    ELSE IF upstream = "blocks"
    THEN {TC_A, TC_INVALID, TC_NODATA, TC_NOMETA, TC_DATA5,
          TC_INVALID_A, TC_NODATA_A, TC_NOMETA_A, TC_DATA5_A}
    ELSE {TC_A, TC_AB, TC_NOID, TC_EMPTYID, TC_FRAGMENT}
OtherChunks ==
    IF upstream \in {"text", "files", "blocks", "pair", "args", "scenario",
                     "fragments", "trivial"}
    THEN {OT_NULL}
    ELSE IF upstream = "usage"
    THEN {OT_NULL, OT_NULL_PLAIN, OT_USAGE, OT_EMPTY_USAGE}
    ELSE IF upstream = "other"
    THEN {OT_NULL, OT_NULL_PLAIN, OT_USAGE, OT_EMPTY_USAGE, OT_NOT_NULL}
    ELSE {OT_NULL, OT_USAGE}
DoneChunks ==
    IF upstream = "usage" THEN {DN_USAGE_2, DN_PLAIN, DN_EMPTY_USAGE}
    ELSE IF upstream = "scenario" THEN {DN_PLAIN}
    ELSE {DN_USAGE}
UnknownChunks == {UNKNOWN}
NoPhaseChunks ==
    IF upstream = "text" THEN {NO_PHASE, EMPTY_PHASE} ELSE {NO_PHASE}

\* SSEToolHandler.__init__
NewHandler(model, stream, user_message) ==
    [model |-> model, stream |-> stream, user_message |-> user_message,
     current_phase |-> None, has_tool_call |-> FALSE, has_sent_role |-> FALSE,
     stream_ended |-> FALSE, tool_id |-> "", tool_name |-> "",
     tool_args |-> <<>>, tool_call_usage |-> {}, content_index |-> 0,
     content_buffer |-> <<>>, buffer_size |-> 0]

InitWith(n, u, messages) ==
    /\ \E stream \in BOOLEAN : \E user_message \in messages :
           handler = NewHandler("GLM-4.6", stream, user_message)
    /\ out = <<>>
    /\ started = <<>>
    /\ finished = <<>>
    /\ history = <<>>
    /\ upstream = u
    /\ fed = 0
    /\ limit = n
    /\ last = [chunk |-> NO_CHUNK, elapsed |-> FALSE, before |-> handler,
               mark |-> 0, started |-> 0]
    /\ \E stream \in (IF u = "pair" THEN BOOLEAN ELSE {TRUE}) :
           peer = [handler |-> NewHandler("GLM-4.5", stream, MSG_HELLO),
                   out |-> <<>>, calls |-> <<>>]

Init == InitWith(MaxChunks, "tools", {MSG_CREATE})

\* A shorter upstream, for the properties of whole behaviours.
LiveInit == InitWith(MaxLiveChunks, "tools", {MSG_CREATE})

\* OtherInstance with content_buffer and buffer_size as attributes of the
\* class: what one object writes, the other reads.
OtherInstance_sharing_buffer(own, other) ==
    [other EXCEPT !.content_buffer = own.content_buffer,
                  !.buffer_size = own.buffer_size]

\* The fields of another SSEToolHandler object after a call on one whose
\* fields are now own: every field is assigned as self.<name>, in __init__
\* and after, and the class and the module hold no state.
OtherInstance(own, other) == other

\* The state after a call that ended in the run r.
Fed(r, chunk_data, elapsed) ==
    /\ handler' = r.h
    /\ out' = r.out
    /\ started' = r.started
    /\ finished' = r.finished
    /\ history' = Append(history, [chunk |-> chunk_data, elapsed |-> elapsed,
                                   ended |-> handler.stream_ended,
                                   lines |-> Len(r.out)])
    /\ fed' = fed + 1
    /\ last' = [chunk |-> chunk_data, elapsed |-> elapsed, before |-> handler,
                mark |-> Len(out), started |-> Len(started)]
    /\ peer' = [peer EXCEPT !.handler = OtherInstance(r.h, @)]
    /\ UNCHANGED <<limit, upstream>>

\* One call of process_sse_chunk, drained by its consumer.
Feed(chunk_data, elapsed) ==
    \E r \in {process_sse_chunk([h |-> handler, out |-> out, raised |-> FALSE,
                                  started |-> started, finished |-> finished],
                                 chunk_data, elapsed)} :
        Fed(r, chunk_data, elapsed)

FeedThinking == fed < limit /\ \E c \in ThinkingChunks : Feed(c, FALSE)
FeedToolCall == fed < limit /\ \E c \in ToolCallChunks : Feed(c, FALSE)
FeedOther == fed < limit /\ \E c \in OtherChunks : Feed(c, FALSE)
FeedAnswer ==
    fed < limit /\ \E c \in AnswerChunks : \E elapsed \in BOOLEAN : Feed(c, elapsed)
FeedUnknown == fed < limit /\ \E c \in UnknownChunks : Feed(c, FALSE)
FeedNoPhase == fed < limit /\ \E c \in NoPhaseChunks : Feed(c, FALSE)
\* The upstream ends with a done chunk, and may send one earlier.
FeedDone == fed <= limit /\ \E c \in DoneChunks : Feed(c, FALSE)

Next ==
    \/ FeedThinking
    \/ FeedToolCall
    \/ FeedOther
    \/ FeedAnswer
    \/ FeedUnknown
    \/ FeedNoPhase
    \/ FeedDone

Spec == Init /\ [][Next]_vars

\* The upstream of answer text.
TextInit == InitWith(MaxTextChunks, "text", {MSG_CREATE})
TextSpec == TextInit /\ [][Next]_vars

\* The upstream of file tools, with a user message that names a file and one
\* that names none.
FilesInit == InitWith(MaxFilesChunks, "files", {MSG_CREATE, MSG_HELLO})
FilesSpec == FilesInit /\ [][Next]_vars

\* What the upstream of the second handler sends.
PeerChunks == {TH_TEXT, AN_TEXT, TC_A, OT_NULL, DN_USAGE}

\* One call of process_sse_chunk on the second handler, drained.
PeerFed(r, chunk_data) ==
    /\ peer' = [handler |-> r.h, out |-> r.out,
                calls |-> Append(peer.calls,
                                 [chunk |-> chunk_data, elapsed |-> FALSE])]
    /\ handler' = OtherInstance(r.h, handler)
    /\ UNCHANGED <<out, started, fed, limit, last, finished, history, upstream>>

FeedPeer ==
    /\ Len(peer.calls) < MaxPeerChunks
    /\ \E c \in PeerChunks :
           \E r \in {process_sse_chunk([h |-> peer.handler, out |-> peer.out,
                                         raised |-> FALSE, started |-> <<>>,
                                         finished |-> <<>>], c, FALSE)} :
               PeerFed(r, c)

\* Two sessions of one process: the calls on the two handlers interleave in
\* every order.
PairInit == InitWith(MaxPairChunks, "pair", {MSG_CREATE})
PairNext == Next \/ FeedPeer
PairSpec == PairInit /\ [][PairNext]_vars

\* The upstream of tool calls with arguments of many shapes.
ArgsInit == InitWith(MaxArgsChunks, "args", {MSG_CREATE})
ArgsSpec == ArgsInit /\ [][Next]_vars

\* The upstream of the scenario: reasoning, then the answer, then done.
ScenarioInit == InitWith(MaxScenarioChunks, "scenario", {MSG_CREATE})
ScenarioSpec == ScenarioInit /\ [][Next]_vars

\* The upstream of other-phase chunks: with and without the sentinel, with and
\* without usage.
OtherInit == InitWith(MaxOtherChunks, "other", {MSG_CREATE})
OtherSpec == OtherInit /\ [][Next]_vars

\* The upstream of tools whose arguments are empty or only begun.
TrivialInit == InitWith(MaxTrivialChunks, "trivial", {MSG_CREATE})
TrivialSpec == TrivialInit /\ [][Next]_vars

\* The upstream of continuations of a tool's arguments.
FragmentsInit == InitWith(MaxFragmentChunks, "fragments", {MSG_CREATE})
FragmentsSpec == FragmentsInit /\ [][Next]_vars

\* The upstream of chunks with and without usage.
UsageInit == InitWith(MaxUsageChunks, "usage", {MSG_CREATE})
UsageSpec == UsageInit /\ [][Next]_vars

\* The upstream of blocks without tool metadata.
BlocksInit == InitWith(MaxBlocksChunks, "blocks", {MSG_CREATE})
BlocksSpec == BlocksInit /\ [][Next]_vars

\* The upstream of the liveness claims: it does send its done chunk.
LiveSpec == LiveInit /\ [][Next]_vars /\ WF_vars(FeedDone)

------------------------------------------------------------------------------
(* The kinds of emitted lines (spec 4.8), and what the latest call did.    *)

IsDone(f) == f.line = "[DONE]"
IsContent(f) ==
    f.line = "json" /\ "content" \in f.delta /\ "tool_calls" \notin f.delta
IsToolStart(f) ==
    f.line = "json" /\ "tool_calls" \in f.delta /\ "name" \in f.fn
IsToolArgs(f) ==
    f.line = "json" /\ "tool_calls" \in f.delta /\ "name" \notin f.fn
IsToolFinish(f) == f.line = "json" /\ f.finish_reason = "tool_calls"
IsStopFinish(f) == f.line = "json" /\ f.finish_reason = "stop"
HasRole(f) == f.line = "json" /\ "role" \in f.delta

\* The lines the latest call yielded.
NewLines == SubSeq(out, last.mark + 1, Len(out))

\* The latest call was made with this phase on a handler that had not ended.
Processed(phase) ==
    /\ "phase" \in last.chunk.keys
    /\ last.chunk.phase = phase
    /\ ~last.before.stream_ended

\* The number of lines of kind P among the first n lines of out.
CountStarts(n) == Cardinality({i \in 1..n : IsToolStart(out[i])})
CountFinishes(n) == Cardinality({i \in 1..n : IsToolFinish(out[i])})

\* The index of the last stop-finish frame before line i, or 0: where the
\* round of line i began.
RoundStart(i) ==
    IF \E j \in 1..(i - 1) : IsStopFinish(out[j])
    THEN CHOOSE j \in 1..(i - 1) :
             /\ IsStopFinish(out[j])
             /\ \A k \in (j + 1)..(i - 1) : ~IsStopFinish(out[k])
    ELSE 0

------------------------------------------------------------------------------
\* C1: once stream_ended is true, a call of process_sse_chunk, whatever the
\* chunk, yields no line and changes no field of the handler, so that
\* stream_ended stays true.
C1_EndedHandlerIgnoresChunks ==
    (fed > 0 /\ last.before.stream_ended) =>
        /\ Len(out) = last.mark
        /\ handler = last.before
        /\ handler.stream_ended

\* A done chunk was fed to a handler that the sentinel had ended.
C1_Witness ==
    /\ fed > 0
    /\ last.before.stream_ended
    /\ last.chunk = DN_USAGE
    /\ handler.stream

\* C2, as claimed: in stream mode no line of any kind follows a [DONE] line,
\* so that there is one terminator pair at most, also when chunks arrive
\* after a done chunk.
C2_NothingAfterDone ==
    handler.stream => \A i \in 1..Len(out) : IsDone(out[i]) => i = Len(out)

\* C2, amended: in stream mode every [DONE] line comes right after a finish
\* frame and every stop-finish frame is followed by [DONE]; the [DONE] that
\* follows a tool-finish frame (the sentinel's) is the last line of all; lines
\* follow a [DONE] only when a done chunk put it there, whose reset opens a
\* new round.
C2_TerminatorPairs ==
    handler.stream =>
        \A i \in 1..Len(out) :
            /\ IsDone(out[i]) =>
                   /\ i > 1
                   /\ IsStopFinish(out[i - 1]) \/ IsToolFinish(out[i - 1])
                   /\ IsToolFinish(out[i - 1]) => i = Len(out)
            /\ IsStopFinish(out[i]) => (i < Len(out) /\ IsDone(out[i + 1]))

\* Lines were yielded after the [DONE] of a done chunk, and a sentinel ended
\* the stream later on.
C2_Witness ==
    /\ handler.stream
    /\ handler.stream_ended
    /\ \E i \in 1..Len(out) : IsDone(out[i]) /\ i + 3 < Len(out)

\* C3, as claimed: the role field is in one emitted frame at most.
C3_RoleAtMostOnce ==
    Cardinality({i \in 1..Len(out) : HasRole(out[i])}) <= 1

\* C3, amended: the role field is in one frame at most of each round, a round
\* ending with the stop-finish frame of a done chunk; has_sent_role goes back
\* to false only in the reset of a done chunk.
C3_RoleOncePerRound ==
    /\ \A i, j \in 1..Len(out) :
           (i < j /\ HasRole(out[i]) /\ HasRole(out[j])) =>
               \E k \in (i + 1)..(j - 1) : IsStopFinish(out[k])
    /\ (last.before.has_sent_role /\ ~handler.has_sent_role) => Processed("done")

\* The role was sent in two rounds.
C3_Witness ==
    Cardinality({i \in 1..Len(out) : HasRole(out[i])}) >= 2

\* C4, as claimed: the k-th tool of a round is emitted with index k - 1, in
\* its tool-start and tool-args frames.
C4_IndexCountsTools ==
    \A i \in 1..Len(out) :
        (IsToolStart(out[i]) \/ IsToolArgs(out[i])) =>
            out[i].tc_index =
                Cardinality({j \in (RoundStart(i) + 1)..(i - 1) :
                                IsToolStart(out[j])})
                - (IF IsToolArgs(out[i]) THEN 1 ELSE 0)

\* C5, as claimed: a tool-start frame has a non-empty id, and a tool-args
\* frame has no id.
C5_StartHasIdArgsHaveNone ==
    \A i \in 1..Len(out) :
        /\ IsToolStart(out[i]) =>
               ("id" \in out[i].tool_call /\ out[i].tc_id \notin {"", None})
        /\ IsToolArgs(out[i]) => "id" \notin out[i].tool_call

\* The latest call was the tool-end sentinel: an other chunk whose
\* edit_content starts with "null," while a tool was active.
SentinelCall ==
    /\ Processed("other")
    /\ last.before.has_tool_call
    /\ StartsWith(GetEditContent(last.chunk), NULL_COMMA)

\* C6: in stream mode the sentinel call ends with tool-start, tool-args,
\* tool-finish and [DONE], in this order and next to each other; before them
\* there is at most the flush of the pending answer text, no stop-finish
\* frame is emitted, and afterwards stream_ended is true and no tool active.
C6_SentinelEmitsToolThenDone ==
    (handler.stream /\ SentinelCall) =>
        LET n == Len(out)
            flushed == IF last.before.content_buffer # <<>> THEN 1 ELSE 0
        IN  /\ n - last.mark = flushed + 4
            /\ flushed = 1 =>
                   /\ IsContent(out[last.mark + 1])
                   /\ out[last.mark + 1].content = last.before.content_buffer
            /\ IsToolStart(out[n - 3])
            /\ out[n - 3].tc_id = last.before.tool_id
            /\ IsToolArgs(out[n - 2])
            /\ IsToolFinish(out[n - 1])
            /\ IsDone(out[n])
            /\ \A i \in (last.mark + 1)..n : ~IsStopFinish(out[i])
            /\ handler.stream_ended
            /\ ~handler.has_tool_call

\* The sentinel arrived in stream mode with answer text pending.
C6_Witness ==
    /\ handler.stream
    /\ SentinelCall
    /\ last.before.content_buffer # <<>>
    /\ IsDone(out[Len(out)])

\* C7: a tool becomes active only when every tool made active before it has
\* been finalized: in stream mode, the lines yielded before the k-th tool
\* became active hold k - 1 tool-start frames and k - 1 tool-finish frames;
\* and no tool is active unless it is the one made active last.
C7_FinishBeforeNextStart ==
    /\ \A k \in 1..Len(started) :
           handler.stream =>
               /\ CountStarts(started[k]) = k - 1
               /\ CountFinishes(started[k]) = k - 1
    /\ handler.stream =>
           CountStarts(Len(out)) =
               Len(started) - (IF handler.has_tool_call THEN 1 ELSE 0)

\* A payload started a tool while another one was active, in stream mode.
C7_Witness ==
    /\ handler.stream
    /\ Processed("tool_call")
    /\ last.before.has_tool_call
    /\ Len(started) > last.started
    /\ handler.has_tool_call

\* C8: in stream mode a done chunk, processed while stream_ended is false,
\* yields the pending answer text as one content frame (if there is any), the
\* start, args and finish frames of the active tool (if there is one), one
\* frame with an empty delta and finish_reason "stop", and [DONE], in this
\* order and nothing else.
C8_DoneOrder ==
    (handler.stream /\ Processed("done")) =>
        LET flushed == IF last.before.content_buffer # <<>> THEN 1 ELSE 0
            tool == IF last.before.has_tool_call THEN 3 ELSE 0
            at == last.mark + flushed
            n == Len(out)
        IN  /\ n = at + tool + 2
            /\ flushed = 1 =>
                   /\ IsContent(out[at])
                   /\ out[at].content = last.before.content_buffer
            /\ tool = 3 =>
                   /\ IsToolStart(out[at + 1])
                   /\ out[at + 1].tc_id = last.before.tool_id
                   /\ IsToolArgs(out[at + 2])
                   /\ IsToolFinish(out[at + 3])
            /\ IsStopFinish(out[n - 1])
            /\ out[n - 1].delta = {}
            /\ IsDone(out[n])

\* A done chunk arrived with answer text pending and a tool active.
C8_Witness ==
    /\ handler.stream
    /\ Processed("done")
    /\ last.before.content_buffer # <<>>
    /\ last.before.has_tool_call

\* A round is open when lines have been yielded and the last one is not
\* [DONE]; it is closed by a finish frame and [DONE].
OpenRound == handler.stream /\ out # <<>> /\ ~IsDone(out[Len(out)])
ClosedRound ==
    /\ Len(out) >= 2
    /\ IsDone(out[Len(out)])
    /\ IsStopFinish(out[Len(out) - 1]) \/ IsToolFinish(out[Len(out) - 1])

\* C9: in stream mode, when the upstream does send its done chunk, a handler
\* that has yielded a line goes on to yield a finish frame and [DONE]; if the
\* sentinel ended the stream before, its tool-finish and [DONE] are those.
C9_EmittingSessionTerminates == OpenRound ~> ClosedRound

\* A done chunk closed a round that thinking text had opened.
C9_Witness ==
    /\ ClosedRound
    /\ Processed("done")
    /\ last.mark > 0
    /\ ~IsDone(out[last.mark])

\* The latest call was made with a phase that SSEPhase does not have.
UnknownPhaseCall ==
    /\ "phase" \in last.chunk.keys
    /\ last.chunk.phase \notin SSEPhase \cup {None, ""}
    /\ ~last.before.stream_ended

\* C10, as claimed: a chunk with an unknown phase yields nothing, also when
\* answer text is pending, and does not end the session.
C10_UnknownPhaseEmitsNothing ==
    UnknownPhaseCall => (Len(out) = last.mark /\ ~handler.stream_ended)

------------------------------------------------------------------------------
(* Whole sessions: what a handler yields for a sequence of calls.          *)

\* A handler as constructed, with the arguments h was constructed with, and
\* nothing yielded.
Fresh(h) ==
    [h |-> NewHandler(h.model, h.stream, h.user_message), out |-> <<>>,
     raised |-> FALSE, started |-> <<>>, finished |-> <<>>]

\* The run after the calls, made in order, on the run given.
RECURSIVE Replay(_, _)
Replay(run, calls0) ==
    Only({
        IF calls = <<>> THEN r
        ELSE Replay(process_sse_chunk(r, calls[1].chunk, calls[1].elapsed),
                    Tail(calls))
        : r \in {run}, calls \in {calls0}})

\* Len(out) before the i-th call.
LinesBefore(i) == IF i = 1 THEN 0 ELSE history[i - 1].lines

\* The lines the i-th call yielded.
LinesOf(i) == SubSeq(out, LinesBefore(i) + 1, history[i].lines)

\* The chunk has no phase, or an empty one.
Phaseless(chunk_data) == GetPhase(chunk_data) \in {None, ""}

\* The calls whose chunk has a phase.
RECURSIVE WithPhase(_)
WithPhase(calls0) ==
    Only({
        IF calls = <<>> THEN <<>>
        ELSE IF Phaseless(calls[1].chunk) THEN WithPhase(Tail(calls))
        ELSE <<calls[1]>> \o WithPhase(Tail(calls))
        : calls \in {calls0}})

\* C11: a chunk without a phase, or with an empty one, yields no line and
\* leaves every field of the handler as it was; the handler goes on as if
\* the chunk had not arrived: its fields and its lines are those of a new
\* handler that is given the other chunks only.
C11_PhaselessChunkIsDropped ==
    /\ (fed > 0 /\ Phaseless(last.chunk)) =>
           /\ Len(out) = last.mark
           /\ handler = last.before
    /\ \A i \in 1..Len(history) :
           Phaseless(history[i].chunk) => history[i].lines = LinesBefore(i)
    /\ Replay(Fresh(handler), WithPhase(history)).h = handler
    /\ Replay(Fresh(handler), WithPhase(history)).out = out

\* A chunk with an empty phase arrived while answer text was pending, and
\* the chunk after it yielded lines.
C11_Witness ==
    /\ handler.stream
    /\ Len(history) >= 3
    /\ history[2].chunk = EMPTY_PHASE
    /\ history[1].chunk = AN_TEXT
    /\ history[1].lines = 0
    /\ history[3].lines > 0

\* The latest call was made, on a handler that had not ended, with a phase
\* that was not the current one, while answer text was pending.
PhaseChangeCall ==
    /\ fed > 0
    /\ ~last.before.stream_ended
    /\ ~Phaseless(last.chunk)
    /\ last.chunk.phase # last.before.current_phase
    /\ last.before.content_buffer # <<>>

\* C12: a chunk whose phase is not the current one, arriving while answer
\* text is pending, has the whole buffer yielded as one content frame (in
\* stream mode, where frames are yielded) before any line of the phase's own
\* handler, leaves the buffer empty, and makes its phase the current one;
\* after a done chunk the reset has put the current phase back to none.
C12_PhaseChangeFlushesFirst ==
    PhaseChangeCall =>
        /\ handler.stream =>
               /\ Len(out) > last.mark
               /\ IsContent(out[last.mark + 1])
               /\ out[last.mark + 1].content = last.before.content_buffer
        /\ handler.content_buffer = <<>>
        /\ handler.buffer_size = 0
        /\ handler.current_phase =
               IF last.chunk.phase = "done" THEN None ELSE last.chunk.phase

\* A thinking chunk arrived while answer text was pending: the buffer's
\* frame and the thinking frame were yielded, in this order.
C12_Witness ==
    /\ PhaseChangeCall
    /\ handler.stream
    /\ last.chunk = TH_TEXT
    /\ Len(out) = last.mark + 2
    /\ out[Len(out)].content = TH_TEXT.delta_content

\* The latest call was an answer chunk with text, on a handler that had not
\* ended.
AnswerCall == Processed("answer") /\ GetDeltaContent(last.chunk) # <<>>

\* The buffer, with the text of the latest chunk appended, is full, or that
\* text has a newline or the end of a sentence.
FullOrSentence ==
    \/ last.before.buffer_size + Len(GetDeltaContent(last.chunk)) >= max_buffer_size
    \/ \E i \in 1..Len(GetDeltaContent(last.chunk)) :
           GetDeltaContent(last.chunk)[i] \in {"\n", "U+3002", "U+FF01", "U+FF1F"}

\* C13: an answer chunk whose text fills the buffer to 100 characters or
\* more, or has a newline or one of the three sentence ends, yields (in
\* stream mode) exactly one content frame, which carries the whole buffer,
\* the new text included, and leaves the buffer empty and its size 0.
C13_FullBufferIsFlushed ==
    (AnswerCall /\ FullOrSentence) =>
        /\ handler.stream =>
               /\ Len(out) = last.mark + 1
               /\ IsContent(out[Len(out)])
               /\ out[Len(out)].content =
                      last.before.content_buffer \o GetDeltaContent(last.chunk)
        /\ handler.content_buffer = <<>>
        /\ handler.buffer_size = 0

\* One character filled a buffer of 99 to exactly 100, before the flush
\* interval had passed.
C13_Witness ==
    /\ AnswerCall
    /\ handler.stream
    /\ ~last.elapsed
    /\ last.chunk = AN_ONE
    /\ last.before.buffer_size = max_buffer_size - 1
    /\ Len(out[Len(out)].content) = max_buffer_size

\* The number of lines a call yields for text of this kind: one, or none
\* when there is no text.
OneIfText(text) == IF text # <<>> THEN 1 ELSE 0

\* C14, as claimed: in stream mode a thinking chunk with text yields exactly
\* one content frame, which carries that text, and the answer buffer is as it
\* was; a thinking chunk without text yields nothing.
C14_ThinkingYieldsOneFrame ==
    (handler.stream /\ Processed("thinking")) =>
        /\ Len(out) = last.mark + OneIfText(GetDeltaContent(last.chunk))
        /\ GetDeltaContent(last.chunk) # <<>> =>
               /\ IsContent(out[Len(out)])
               /\ out[Len(out)].content = GetDeltaContent(last.chunk)
        /\ handler.content_buffer = last.before.content_buffer
        /\ handler.buffer_size = last.before.buffer_size

\* C14, amended: in stream mode the last line of a thinking chunk with text
\* is a content frame carrying exactly that text, and a thinking chunk
\* without text yields no line of its own; the only other line of the call is
\* the frame of the answer text that was pending when the phase changed,
\* which comes first and leaves the buffer empty; with no text pending the
\* buffer is as it was.
C14_ThinkingAfterFlush ==
    (handler.stream /\ Processed("thinking")) =>
        /\ Len(out) = last.mark + OneIfText(last.before.content_buffer)
                                + OneIfText(GetDeltaContent(last.chunk))
        /\ GetDeltaContent(last.chunk) # <<>> =>
               /\ IsContent(out[Len(out)])
               /\ out[Len(out)].content = GetDeltaContent(last.chunk)
        /\ last.before.content_buffer # <<>> =>
               /\ IsContent(out[last.mark + 1])
               /\ out[last.mark + 1].content = last.before.content_buffer
        /\ handler.content_buffer = <<>>
        /\ handler.buffer_size = 0

\* A thinking chunk without text arrived while answer text was pending, and
\* the pending text was yielded.
C14_Witness ==
    /\ handler.stream
    /\ Processed("thinking")
    /\ last.chunk = TH_EMPTY
    /\ last.before.content_buffer # <<>>
    /\ Len(out) = last.mark + 1

\* The text of the thinking and answer chunks among the calls, in the order
\* of arrival.
RECURSIVE ArrivedText(_)
ArrivedText(calls0) ==
    Only({
        IF calls = <<>> THEN <<>>
        ELSE (IF GetPhase(calls[1].chunk) \in {"thinking", "answer"}
              THEN GetDeltaContent(calls[1].chunk)
              ELSE <<>>) \o ArrivedText(Tail(calls))
        : calls \in {calls0}})

\* The text of the content frames among the lines, in the order yielded.
RECURSIVE EmittedText(_)
EmittedText(lines0) ==
    Only({
        IF lines = <<>> THEN <<>>
        ELSE (IF IsContent(lines[1]) THEN lines[1].content ELSE <<>>)
             \o EmittedText(Tail(lines))
        : lines \in {lines0}})

\* s is the beginning of t.
IsPrefix(s, t) == Len(s) <= Len(t) /\ SubSeq(t, 1, Len(s)) = s

\* The latest call yielded [DONE] as its last line.
DoneJustEmitted ==
    Len(out) > last.mark /\ IsDone(out[Len(out)])

\* C15: in stream mode the text of the content frames yielded so far is
\* always the beginning of the text of the thinking and answer chunks that
\* have arrived, in their order, and it is all of it when [DONE] has just
\* been yielded.
C15_TextInOrderAndComplete ==
    handler.stream =>
        /\ IsPrefix(EmittedText(out), ArrivedText(history))
        /\ DoneJustEmitted => EmittedText(out) = ArrivedText(history)

\* [DONE] has just been yielded after answer text that one call buffered and
\* a later call yielded, and after a thinking chunk.
C15_Witness ==
    /\ handler.stream
    /\ DoneJustEmitted
    /\ \E i \in 1..Len(history) :
           /\ history[i].chunk = AN_TEXT
           /\ history[i].lines = LinesBefore(i)
    /\ \E i \in 1..Len(history) : history[i].chunk = TH_TEXT
    /\ EmittedText(out) = ArrivedText(history)

\* The i-th call was a done chunk on a handler that had not ended.
DoneProcessedAt(i) ==
    GetPhase(history[i].chunk) = "done" /\ ~history[i].ended

\* The run of a new handler over the calls after the i-th.
AfterwardsOnNew(i) ==
    Replay(Fresh(handler), SubSeq(history, i + 1, Len(history)))

\* C16: when a done chunk has been processed, the fields of the handler are
\* those of a handler just constructed with the same model, stream mode and
\* user message; and whatever calls follow, the handler yields the lines, and
\* comes to the fields, that a new handler comes to with the same calls.
C16_DoneLeavesNewHandler ==
    /\ Processed("done") =>
           handler = NewHandler(handler.model, handler.stream, handler.user_message)
    /\ \A i \in 1..Len(history) :
           DoneProcessedAt(i) =>
               /\ AfterwardsOnNew(i).h = handler
               /\ AfterwardsOnNew(i).out =
                      SubSeq(out, history[i].lines + 1, Len(out))

\* A done chunk arrived with a tool active, and the calls after it yielded
\* lines.
C16_Witness ==
    /\ handler.stream
    /\ Len(history) >= 3
    /\ history[1].chunk = TC_A
    /\ DoneProcessedAt(2)
    /\ Len(out) > history[2].lines + 1

------------------------------------------------------------------------------
(* The arguments of finalised tools.                                       *)

\* The arguments _finish_current_tool hands to _fix_tool_arguments for the
\* accumulated text tool_args.
RawArgs(tool_args) ==
    IF tool_args = <<>> \/ tool_args \in {OPEN_BRACE, OPEN_BRACE_QUOTE}
    THEN EMPTY_OBJECT
    ELSE tool_args

\* What the try block of _fix_tool_arguments parses the arguments to.
ParsedArgs(tool_args) ==
    repair_json_loads(_preprocess_json_string(Strip(RawArgs(tool_args))))

\* The try block of _fix_tool_arguments raises on these arguments.
RepairFails(tool_args) ==
    /\ RawArgs(tool_args) # EMPTY_OBJECT
    /\ ~ParsedArgs(tool_args).ok

\* The k-th finalised tool's frames are the three lines after its mark.
TripleAt(k) ==
    /\ Len(out) >= finished[k].mark + 3
    /\ IsToolStart(out[finished[k].mark + 1])
    /\ out[finished[k].mark + 1].fn_name = finished[k].tool_name
    /\ IsToolArgs(out[finished[k].mark + 2])
    /\ IsToolFinish(out[finished[k].mark + 3])

\* The arguments text of the k-th finalised tool's arguments frame.
SentArgs(k) == out[finished[k].mark + 2].fn_arguments

\* C17: when the repair pipeline fails on a tool's arguments, the handler
\* still emits the start, arguments and finish frames, with "{}" as the
\* arguments, clears the tool state and does not end the session.
C17_FailedRepairEmitsEmptyObject ==
    \A k \in 1..Len(finished) :
        RepairFails(finished[k].tool_args) =>
            /\ handler.stream => TripleAt(k) /\ SentArgs(k) = EMPTY_OBJECT
            /\ (k = Len(finished) /\ Len(started) = k) =>
                   /\ ~handler.has_tool_call
                   /\ handler.tool_id = ""
                   /\ handler.tool_name = ""
                   /\ handler.tool_args = <<>>
            /\ (finished[k].mark >= last.mark /\ Processed("tool_call")) =>
                   ~handler.stream_ended

\* A tool with the arguments [1] was finalised by the next tool's block, in
\* stream mode, and the next tool is active.
C17_Witness ==
    /\ handler.stream
    /\ Processed("tool_call")
    /\ handler.has_tool_call
    /\ \E k \in 1..Len(finished) :
           /\ finished[k].tool_args = ARGS_LIST
           /\ RepairFails(finished[k].tool_args)
           /\ finished[k].mark >= last.mark
           /\ SentArgs(k) = EMPTY_OBJECT

\* json.loads of the arguments text of the k-th finalised tool's frame.
SentObject(k) == repair_json_loads(SentArgs(k))

\* The repaired arguments of the k-th finalised tool have content and no
\* file_path.
LacksFilePath(k) ==
    /\ ParsedArgs(finished[k].tool_args).ok
    /\ HasKey(ParsedArgs(finished[k].tool_args).obj, KEY_CONTENT)
    /\ ~HasKey(ParsedArgs(finished[k].tool_args).obj, KEY_FILE_PATH)

\* The file path the Write branch sets: the inferred one, or the default.
InferredOrDefault ==
    IF _extract_filename_from_context(handler.user_message) # <<>>
    THEN _extract_filename_from_context(handler.user_message)
    ELSE OUTPUT_HTML

\* The k-th finalised tool's emitted arguments have the synthesised path.
PathSynthesised(k) ==
    /\ SentObject(k).ok
    /\ HasKey(SentObject(k).obj, KEY_CONTENT)
    /\ HasKey(SentObject(k).obj, KEY_FILE_PATH)
    /\ ValueOf(SentObject(k).obj, KEY_FILE_PATH) = InferredOrDefault

\* C18: a finalised Write tool whose repaired arguments have content and no
\* file_path is emitted with file_path set to the filename inferred from the
\* user message, or to output.html when there is none; so every emitted
\* Write arguments object with content has file_path.
C18_WriteGetsFilePath ==
    \A k \in 1..Len(finished) :
        (handler.stream /\ finished[k].tool_name = "Write") =>
            /\ TripleAt(k)
            /\ LacksFilePath(k) => PathSynthesised(k)
            /\ (SentObject(k).ok /\ HasKey(SentObject(k).obj, KEY_CONTENT)) =>
                   HasKey(SentObject(k).obj, KEY_FILE_PATH)

\* A Write tool with content only was finalised under a user message that
\* names no file, and was emitted with output.html.
C18_Witness ==
    /\ handler.stream
    /\ handler.user_message = MSG_HELLO
    /\ \E k \in 1..Len(finished) :
           /\ finished[k].tool_name = "Write"
           /\ finished[k].tool_args = ARGS_CONTENT
           /\ LacksFilePath(k)
           /\ ValueOf(SentObject(k).obj, KEY_FILE_PATH) = OUTPUT_HTML

\* C19: a finalised write_file or create_file tool whose repaired arguments
\* have content and no file_path is emitted with file_path set as for Write:
\* the inferred filename, or output.html when there is none.
C19_FileToolsGetPathLikeWrite ==
    \A k \in 1..Len(finished) :
        (handler.stream /\ finished[k].tool_name \in {"write_file", "create_file"}) =>
            (LacksFilePath(k) => PathSynthesised(k))

------------------------------------------------------------------------------
(* Blocks without tool metadata.                                           *)

\* The payloads of one block that is not valid JSON or has no data.metadata.
MalformedAlone == {TC_INVALID, TC_NODATA, TC_NOMETA, TC_DATA5}

\* The payloads of such a block followed by the block of tool A.
MalformedThenA == {TC_INVALID_A, TC_NODATA_A, TC_NOMETA_A, TC_DATA5_A}

\* The latest call was a tool_call payload on a handler with no active tool.
ToolCallWithoutTool ==
    Processed("tool_call") /\ ~last.before.has_tool_call

\* The latest call, had its payload been this one.
LatestCallWith(chunk_data) ==
    process_sse_chunk([h |-> last.before, out |-> <<>>, raised |-> FALSE,
                       started |-> <<>>, finished |-> <<>>],
                      chunk_data, last.elapsed)

IsToolLine(f) == IsToolStart(f) \/ IsToolArgs(f) \/ IsToolFinish(f)

\* C20: a glm_block whose payload is not valid JSON or has no data.metadata
\* starts no tool: with no tool active before it none is active after it and
\* no tool frame is emitted for it, and the session continues with the next
\* segment or chunk.
C20_MalformedBlockIsSkipped ==
    ToolCallWithoutTool =>
        /\ last.chunk \in MalformedAlone =>
               /\ ~handler.has_tool_call
               /\ Len(started) = last.started
               /\ \A i \in 1..Len(NewLines) : ~IsToolLine(NewLines[i])
               /\ ~handler.stream_ended
        /\ last.chunk \in MalformedThenA =>
               /\ handler = LatestCallWith(TC_A).h
               /\ NewLines = LatestCallWith(TC_A).out

------------------------------------------------------------------------------
(* The frames' fields.                                                     *)

\* The skeleton of spec 4.8 on a JSON line: the object, the handler's model,
\* the fingerprint, and one choice with index 0 and a logprobs key (the code
\* writes None wherever it writes the key).
HasSkeleton(f) ==
    /\ {"id", "object", "created", "model", "system_fingerprint", "choices"}
           \subseteq f.top
    /\ f.object = "chat.completion.chunk"
    /\ f.model = handler.model
    /\ f.system_fingerprint = "fp_zai_001"
    /\ {"index", "delta", "logprobs", "finish_reason"} \subseteq f.choice
    /\ f.choice_index = 0

\* C21: every emitted JSON frame, of every kind, has the common skeleton:
\* object chat.completion.chunk, the session's model, system_fingerprint
\* fp_zai_001 and one choice with index 0 and logprobs null.
C21_EveryFrameHasSkeleton ==
    \A i \in 1..Len(out) : out[i].line = "json" => HasSkeleton(out[i])

\* The call that yielded line m of out.
CallOf(m) ==
    CHOOSE i \in 1..Len(history) : LinesBefore(i) < m /\ m <= history[i].lines

\* The calls up to the i-th that stored a usage: other-phase chunks with a
\* non-empty usage on a handler that had not ended (lines 257-258).
StoredBy(i) ==
    {j \in 1..i : /\ ~history[j].ended
                  /\ GetPhase(history[j].chunk) = "other"
                  /\ GetUsage(history[j].chunk) # {}}

\* The same, without those a processed done chunk came after.
StoredSinceDone(i) ==
    {j \in StoredBy(i) : \A d \in j..(i - 1) : ~DoneProcessedAt(d)}

\* The usage the latest of these calls stored, or none.
LatestUsage(calls) ==
    IF calls = {} THEN {} ELSE GetUsage(history[HighestOr(calls)].chunk)

\* Line f carries usage exactly when this one is not empty, and then this one.
CarriesStored(f, usage) ==
    /\ "usage" \in f.top <=> usage # {}
    /\ "usage" \in f.top => f.usage = usage

\* The stop-finish frame carries the usage of the done chunk of its call
\* exactly when that chunk has the key.
CarriesChunkUsage(f, chunk_data) ==
    /\ "usage" \in f.top <=> "usage" \in chunk_data.keys
    /\ "usage" \in f.top => f.usage = chunk_data.usage

StopFinishUsage ==
    \A m \in 1..Len(out) :
        IsStopFinish(out[m]) =>
            /\ GetPhase(history[CallOf(m)].chunk) = "done"
            /\ CarriesChunkUsage(out[m], history[CallOf(m)].chunk)

\* C22 as stated: a tool-finish frame carries usage exactly when an
\* other-phase chunk stored a non-empty one earlier in the session (or in the
\* same call), and then the latest stored; a stop-finish frame carries usage
\* exactly when its done chunk has the key, and then that usage.
C22_FinishFramesCarryUsage ==
    /\ \A m \in 1..Len(out) :
           IsToolFinish(out[m]) =>
               CarriesStored(out[m], LatestUsage(StoredBy(CallOf(m))))
    /\ StopFinishUsage

\* C22, amended: the usage a tool-finish frame carries is the latest stored
\* since the last processed done chunk, whose reset forgets the stored usage.
C22_FinishFramesCarryUsageSinceDone ==
    /\ \A m \in 1..Len(out) :
           IsToolFinish(out[m]) =>
               CarriesStored(out[m], LatestUsage(StoredSinceDone(CallOf(m))))
    /\ StopFinishUsage

\* A tool-finish frame with the stored usage, then a stop-finish frame of a
\* done chunk with another usage, then a tool-finish frame without usage.
C22_Witness ==
    \E m \in 1..Len(out) : \E n \in (m + 1)..Len(out) : \E p \in (n + 1)..Len(out) :
        /\ IsToolFinish(out[m]) /\ out[m].usage = USAGE_2
        /\ IsStopFinish(out[n]) /\ "usage" \in out[n].top
        /\ IsToolFinish(out[p]) /\ "usage" \notin out[p].top

------------------------------------------------------------------------------
(* Two sessions.                                                           *)

\* The second handler given its calls alone.
PeerAlone == Replay(Fresh(peer.handler), peer.calls)

\* The first handler given its calls alone.
FirstAlone == Replay(Fresh(handler), history)

------------------------------------------------------------------------------
(* The repaired arguments as JSON.                                         *)

\* C24: for every accumulated argument string, the string the repair returns
\* and the arguments frame carries parses as JSON, and serialising the parsed
\* object again (text outside ASCII kept) gives the same string.
C24_RepairedArgsAreFixedPoint ==
    \A k \in 1..Len(finished) :
        handler.stream =>
            /\ TripleAt(k)
            /\ SentObject(k).ok
            /\ json_dumps(SentObject(k).obj) = SentArgs(k)

\* A tool whose arguments had the escape \u4e2d was emitted with the
\* character itself.
C24_Witness ==
    /\ handler.stream
    /\ \E k \in 1..Len(finished) :
           /\ finished[k].tool_args = ARGS_UNICODE
           /\ SentArgs(k) = <<"{", "\"", "t", "\"", ":", " ", "\"", "U+4e2d", "\"", "}">>

------------------------------------------------------------------------------
(* The scenario: thinking, answer, done.                                   *)

\* The calls so far are thinking("reasoning…"), answer("Hello."), done, in
\* stream mode.
ScenarioFed ==
    /\ handler.stream
    /\ Len(history) = 3
    /\ history[1].chunk = TH_REASONING
    /\ history[2].chunk = AN_HELLO
    /\ GetPhase(history[3].chunk) = "done"

\* C25: for thinking("reasoning…"), answer("Hello."), done in stream mode
\* the output is exactly a content frame with role assistant and
\* "reasoning…", a content frame with "Hello." and no role, a stop-finish
\* frame and [DONE], whether the answer is flushed on arrival or at done.
C25_ScenarioOutput ==
    ScenarioFed =>
        /\ Len(out) = 4
        /\ IsContent(out[1])
        /\ HasRole(out[1]) /\ out[1].role = "assistant"
        /\ out[1].content = REASONING
        /\ IsContent(out[2])
        /\ ~HasRole(out[2])
        /\ out[2].content = HELLO
        /\ IsStopFinish(out[3])
        /\ IsDone(out[4])

\* The scenario with the answer still buffered after its call: it is flushed
\* at done.
C25_Witness ==
    /\ ScenarioFed
    /\ ~history[2].elapsed
    /\ history[2].lines = 1
    /\ Len(out) = 4

------------------------------------------------------------------------------
(* Continuations of a tool's arguments.                                    *)

\* The latest call was a tool_call payload without a block marker, not empty.
FragmentCall ==
    /\ Processed("tool_call")
    /\ GetEditContent(last.chunk) # <<>>
    /\ ~Contains(GetEditContent(last.chunk), GLM_OPEN)

\* payload[0:p] when the separator ", "result" is at offset p > 0, and the
\* whole payload otherwise.
UpToResult(payload) ==
    IF Find(payload, RESULT_SEP) > 0
    THEN SubSeq(payload, 1, Find(payload, RESULT_SEP))
    ELSE payload

\* The handler before the latest call, with the phase of the call.
BeforeInPhase == [last.before EXCEPT !.current_phase = GetPhase(last.chunk)]

\* The latest call came in another phase than the one before it, with text
\* in the buffer: lines 96-99 flush it.
FlushedFirst ==
    /\ last.before.current_phase # GetPhase(last.chunk)
    /\ last.before.content_buffer # <<>>

\* The handler before the latest call, with the phase of the call and the
\* buffer flushed.
BeforeFlushed ==
    IF FlushedFirst
    THEN [BeforeInPhase EXCEPT !.content_buffer = <<>>, !.buffer_size = 0,
                               !.has_sent_role = @ \/ last.before.stream]
    ELSE BeforeInPhase

\* The lines of the latest call are those of the flush, if any.
OnlyFlushLines ==
    IF FlushedFirst /\ last.before.stream
    THEN /\ Len(NewLines) = 1
         /\ IsContent(NewLines[1])
         /\ NewLines[1].content = last.before.content_buffer
    ELSE NewLines = <<>>

\* C26 as stated: a tool_call payload without a block marker appends to the
\* active tool's arguments the text before ", "result" when that is at a
\* position above 0 and the whole payload otherwise, and emits no frame;
\* with no tool active no field changes except current_phase.
C26_FragmentIsAppended ==
    FragmentCall =>
        /\ NewLines = <<>>
        /\ handler =
               IF last.before.has_tool_call
               THEN [BeforeInPhase EXCEPT
                        !.tool_args = @ \o UpToResult(GetEditContent(last.chunk))]
               ELSE BeforeInPhase

\* C26, amended: the same, after the flush of the buffered answer text that
\* a change of phase causes, which emits its frame and empties the buffer.
C26_FragmentIsAppendedAfterFlush ==
    FragmentCall =>
        /\ OnlyFlushLines
        /\ handler =
               IF last.before.has_tool_call
               THEN [BeforeFlushed EXCEPT
                        !.tool_args = @ \o UpToResult(GetEditContent(last.chunk))]
               ELSE BeforeFlushed

\* The payload c", "result": 1 arrived while tool A was active, after
\* buffered answer text: the arguments grew by c and the text was flushed.
C26_Witness ==
    /\ FragmentCall
    /\ last.chunk = TC_FRAGMENT_RESULT
    /\ last.before.has_tool_call
    /\ handler.tool_args = ARGS_A \o <<"c">>
    /\ FlushedFirst
    /\ last.before.stream

\* The latest call was a tool_call payload with a block marker and text that
\* is not blank before the first one.
BlockCallWithText ==
    /\ Processed("tool_call")
    /\ Contains(GetEditContent(last.chunk), GLM_OPEN)
    /\ ~IsBlank(Split(GetEditContent(last.chunk), GLM_OPEN)[1])

\* payload[0:r-3], the slice as Python takes it, when the key "result" is at
\* offset r > 0 of the payload, and nothing otherwise.
BeforeResultKey(payload) ==
    IF Find(payload, RESULT_KEY) > 0
    THEN SliceTo(payload, Find(payload, RESULT_KEY) - 3)
    ELSE <<>>

\* The tools the latest call finalised.
FinishedInLatest == LatestCallWith(last.chunk).finished

\* C27: for a tool_call payload with a block marker whose segment 0 is not
\* blank, an active tool's arguments grow by payload[0:r-3] when the key
\* "result" is at position r > 0 of the payload; with no tool active, or
\* with the key absent or at position 0, segment 0 leaves them unchanged.
C27_TextBeforeBlockIsAppended ==
    BlockCallWithText =>
        IF last.before.has_tool_call
        THEN /\ Len(FinishedInLatest) = 1
             /\ FinishedInLatest[1].tool_name = last.before.tool_name
             /\ FinishedInLatest[1].tool_args =
                    last.before.tool_args
                        \o BeforeResultKey(GetEditContent(last.chunk))
        ELSE /\ FinishedInLatest = <<>>
             /\ handler.tool_name = "B"
             /\ handler.tool_args = EMPTY_OBJECT

\* The payload d", "result": "" and then block B arrived while tool A was
\* active: A was finalised with its arguments and d.
C27_Witness ==
    /\ BlockCallWithText
    /\ last.chunk = TC_TAIL_B
    /\ last.before.has_tool_call
    /\ Len(FinishedInLatest) = 1
    /\ FinishedInLatest[1].tool_args = ARGS_A \o <<"d">>
    /\ handler.tool_name = "B"

\* The last segment of a payload with a block marker.
LastSegment(payload) ==
    Split(payload, GLM_OPEN)[Len(Split(payload, GLM_OPEN))]

\* What json.loads gives for the body of a segment that has its closing tag.
SegmentMetadata(block) ==
    json_loads(Slice(block, Find(block, GT) + 1, RFind(block, GLM_CLOSE)))

\* A segment is well formed: it has its closing tag and its body is an
\* object with data.metadata, which has an id and a name.
WellFormed(block) ==
    /\ Contains(block, GLM_CLOSE)
    /\ Find(block, GT) # -1
    /\ SegmentMetadata(block).kind = "metadata"
    /\ {"id", "name"} \subseteq SegmentMetadata(block).keys

\* The latest call was a tool_call payload whose last segment is well formed.
WellFormedBlockCall ==
    /\ Processed("tool_call")
    /\ Contains(GetEditContent(last.chunk), GLM_OPEN)
    /\ WellFormed(LastSegment(GetEditContent(last.chunk)))

\* The metadata of the last segment of the latest call.
LatestMetadata == SegmentMetadata(LastSegment(GetEditContent(last.chunk)))

\* C28: a well-formed glm_block segment makes a tool active with the id and
\* name of data.metadata and with metadata.arguments as its arguments, or
\* "{}" when the key is absent; no argument text of an earlier tool is
\* carried into the new one.
C28_BlockStartsToolWithItsArguments ==
    WellFormedBlockCall =>
        /\ handler.has_tool_call
        /\ handler.tool_id = LatestMetadata.id
        /\ handler.tool_name = LatestMetadata.name
        /\ handler.tool_args =
               IF "arguments" \in LatestMetadata.keys
               THEN LatestMetadata.arguments
               ELSE EMPTY_OBJECT

\* Tool A was active with arguments a fragment had added to, and block B,
\* which has no arguments, arrived: B is active with "{}".
C28_Witness ==
    /\ WellFormedBlockCall
    /\ last.before.has_tool_call
    /\ last.before.tool_name = "A"
    /\ Len(last.before.tool_args) > Len(ARGS_A)
    /\ handler.tool_name = "B"
    /\ handler.tool_args = EMPTY_OBJECT

-------------------------------------------------------------------------------
(* The other phase.                                                        *)

\* The latest call was an other chunk that is not the tool-end sentinel: no
\* tool was active, or edit_content is empty or does not start with "null,".
OtherCallNotToolEnd == Processed("other") /\ ~SentinelCall

\* The fields _reset_tool_state clears.
ToolState(h) == <<h.tool_id, h.tool_name, h.tool_args, h.has_tool_call>>

\* C29: an other-phase chunk that is not a tool-end emits no tool frame and
\* no [DONE], leaves stream_ended false and the tool state unchanged,
\* finalizes no tool, and stores the chunk's usage only when it is not empty.
C29_OtherChunkOnlyStoresUsage ==
    OtherCallNotToolEnd =>
        /\ \A i \in 1..Len(NewLines) :
               ~IsToolLine(NewLines[i]) /\ ~IsDone(NewLines[i])
        /\ ~handler.stream_ended
        /\ ToolState(handler) = ToolState(last.before)
        /\ FinishedInLatest = <<>>
        /\ handler.tool_call_usage =
               IF GetUsage(last.chunk) # {} THEN GetUsage(last.chunk)
               ELSE last.before.tool_call_usage

\* With a tool active, an other chunk whose edit_content is "null" without
\* the comma arrived: its usage replaced another stored usage, and the tool
\* is still active.
C29_Witness ==
    /\ OtherCallNotToolEnd
    /\ last.chunk = OT_NOT_NULL
    /\ last.before.has_tool_call
    /\ last.before.tool_call_usage = USAGE_1
    /\ handler.tool_call_usage = USAGE_2
    /\ handler.has_tool_call

\* The handler after the phase change of lines 92 to 104 for an other chunk.
AfterPhaseChange(r) ==
    IF r.h.current_phase # "other"
    THEN [_flush_content_buffer(r) EXCEPT !.h.current_phase = "other"]
    ELSE r

\* The handler after lines 257 and 258.
AfterUsageStore(r, usage) ==
    IF usage # {} THEN [r EXCEPT !.h.tool_call_usage = usage] ELSE r

\* The handler of the latest call when line 261 was reached: the phase is
\* recorded and the chunk's usage stored.
StepEntry ==
    AfterUsageStore(
        AfterPhaseChange([h |-> last.before, out |-> <<>>, raised |-> FALSE,
                          started |-> <<>>, finished |-> <<>>]),
        GetUsage(last.chunk)).h

\* The handler with the fields of _reset_tool_state cleared.
ToolCleared(h) ==
    [h EXCEPT !.tool_id = "", !.tool_name = "", !.tool_args = <<>>,
              !.has_tool_call = FALSE]

\* C30 as stated: after the sentinel step has_sent_role, current_phase,
\* tool_call_usage and content_index have the values they had when the step
\* began, the active tool's fields are cleared and stream_ended is true.
C30_SentinelKeepsOtherState ==
    SentinelCall =>
        /\ handler.has_sent_role = StepEntry.has_sent_role
        /\ handler.current_phase = StepEntry.current_phase
        /\ handler.tool_call_usage = StepEntry.tool_call_usage
        /\ handler.content_index = StepEntry.content_index
        /\ ToolState(handler) = ToolState(ToolCleared(StepEntry))
        /\ handler.stream_ended

\* C30: the sentinel step resets nothing but the active tool's fields:
\* current_phase, tool_call_usage, content_index and every other field keep
\* the values they had when the step began, stream_ended becomes true, and
\* has_sent_role is never made false: it keeps its value in non-stream mode
\* and is true in stream mode, where the tool-start frame carries the role.
C30_SentinelResetsOnlyTool ==
    SentinelCall =>
        handler = [ToolCleared(StepEntry) EXCEPT
                      !.stream_ended = TRUE,
                      !.has_sent_role = @ \/ StepEntry.stream]

\* The sentinel arrived in stream mode before any frame with the role, with
\* a usage stored earlier: the role is emitted now, the usage is kept.
C30_Witness ==
    /\ SentinelCall
    /\ handler.stream
    /\ ~StepEntry.has_sent_role
    /\ handler.has_sent_role
    /\ last.before.tool_call_usage = USAGE_2
    /\ GetUsage(last.chunk) = {}
    /\ handler.tool_call_usage = USAGE_2
    /\ handler.current_phase = "other"
    /\ handler.stream_ended

-------------------------------------------------------------------------------
(* Empty arguments.                                                        *)

\* The argument texts of lines 376 to 378: empty, "{" and "{\"".
TrivialArgs == {<<>>, OPEN_BRACE, OPEN_BRACE_QUOTE}

\* C31: a tool finalized with accumulated arguments that are empty, "{" or
\* "{\"" is sent, in stream mode, as its tool-start, tool-args and tool-finish
\* frames, and the tool-args frame carries "{}".
C31_TrivialArgsSentAsEmptyObject ==
    \A k \in 1..Len(finished) :
        (handler.stream /\ finished[k].tool_args \in TrivialArgs) =>
            /\ TripleAt(k)
            /\ SentArgs(k) = EMPTY_OBJECT

\* Tools with each of the three texts were finalized in stream mode, the one
\* with "{" being a Write.
C31_Witness ==
    /\ handler.stream
    /\ Len(finished) = 3
    /\ {finished[k].tool_args : k \in 1..3} = TrivialArgs
    /\ \E k \in 1..3 :
           finished[k].tool_args = OPEN_BRACE /\ finished[k].tool_name = "Write"
    /\ \A k \in 1..3 : SentArgs(k) = EMPTY_OBJECT

-------------------------------------------------------------------------------
(* The recorded phase.                                                     *)

\* C32, as claimed: in every reachable state current_phase is None or one of
\* the five phases of SSEPhase; a chunk with another phase value never
\* becomes current_phase.
C32_CurrentPhaseIsKnown == handler.current_phase \in SSEPhase \cup {None}

-------------------------------------------------------------------------------
(* Exceptions.                                                             *)

\* The run of the try block of process_sse_chunk on handler h, before the
\* except clause.
Tried(h, chunk_data, elapsed) ==
    Dispatch(IF GetPhase(chunk_data) # h.current_phase
             THEN [_flush_content_buffer([h |-> h, out |-> <<>>, raised |-> FALSE,
                                          started |-> <<>>, finished |-> <<>>])
                   EXCEPT !.h.current_phase = GetPhase(chunk_data)]
             ELSE [h |-> h, out |-> <<>>, raised |-> FALSE,
                   started |-> <<>>, finished |-> <<>>],
             GetPhase(chunk_data), chunk_data, elapsed)

\* The latest call raised an exception in its try block.
RaisedInLatest ==
    /\ ~last.before.stream_ended
    /\ GetPhase(last.chunk) \notin {None, ""}
    /\ Tried(last.before, last.chunk, last.elapsed).raised

\* The next call is the one process_sse_chunk makes past its guard.
NextIsDispatched(r) == handler' = r.h /\ out' = r.out

\* C33: a chunk whose processing raises an exception does not end the
\* session: stream_ended is not set, the call yields no [DONE], and the next
\* chunk is dispatched by its phase as on a handler that has not ended.
C33_ExceptionDoesNotEndSession ==
    /\ [](RaisedInLatest =>
             /\ ~handler.stream_ended
             /\ \A i \in 1..Len(NewLines) : ~IsDone(NewLines[i]))
    /\ [][RaisedInLatest =>
             NextIsDispatched(
                 process_sse_chunk_unguarded(
                     [h |-> handler, out |-> out, raised |-> FALSE,
                      started |-> started, finished |-> finished],
                     last'.chunk, last'.elapsed))]_vars

\* A block whose data is a number raised while no tool was active, and the
\* next chunk, the block of tool A, made A active.
C33_Witness ==
    /\ Len(history) >= 2
    /\ history[Len(history) - 1].chunk = TC_DATA5
    /\ ~history[Len(history) - 1].ended
    /\ last.chunk = TC_A
    /\ ~last.before.has_tool_call
    /\ ~last.before.stream_ended
    /\ handler.has_tool_call
    /\ handler.tool_id = "call_a"

-------------------------------------------------------------------------------
(* The answer buffer between chunks.                                       *)

\* C34: after every call, a content_buffer that is not empty implies that
\* current_phase is "answer".
C34_BufferOnlyInAnswerPhase ==
    handler.content_buffer # <<>> => handler.current_phase = "answer"

\* Answer text was buffered, a thinking chunk flushed it, and answer text is
\* buffered again.
C34_Witness ==
    /\ Len(history) >= 3
    /\ GetPhase(history[Len(history) - 2].chunk) = "answer"
    /\ GetPhase(history[Len(history) - 1].chunk) = "thinking"
    /\ ~history[Len(history) - 2].ended
    /\ last.before.content_buffer = <<>>
    /\ Processed("answer")
    /\ handler.content_buffer # <<>>
    /\ handler.current_phase = "answer"

-------------------------------------------------------------------------------
(* Tool frames and finalization.                                           *)

\* Line i is one of the three frames of the k-th finalized tool, and the two
\* of them that have an index, the start and the arguments frame, have the
\* same one.
InTripleOf(i, k) ==
    /\ i \in (finished[k].mark + 1)..(finished[k].mark + 3)
    /\ TripleAt(k)
    /\ out[finished[k].mark + 1].tc_index = out[finished[k].mark + 2].tc_index

\* Every tool frame is one of a finalized tool's three frames, which are
\* next to each other, and there are as many finish frames as start frames.
ToolFramesInTriples ==
    /\ \A i \in 1..Len(out) :
           IsToolLine(out[i]) => \E k \in 1..Len(finished) : InTripleOf(i, k)
    /\ CountFinishes(Len(out)) = CountStarts(Len(out))

\* The latest call was a tool_call chunk that finalized no tool: it only
\* started one, with none active before, or only extended the active one.
ToolCallWithoutFinish == Processed("tool_call") /\ FinishedInLatest = <<>>

\* C35 as stated: in stream mode tool frames come only in the triples of
\* finalization, and a tool_call chunk that finalizes no tool yields no frame
\* at all.
C35_ToolFramesOnlyAtFinalization ==
    handler.stream =>
        /\ ToolFramesInTriples
        /\ ToolCallWithoutFinish => NewLines = <<>>

\* C35: in stream mode tool frames come only in the triples of finalization,
\* with as many finish frames as start frames after every call, and a
\* tool_call chunk that finalizes no tool yields no tool frame: it yields
\* nothing, or the one content frame of the answer text that was pending.
C35_ToolFramesOnlyInTriples ==
    handler.stream =>
        /\ ToolFramesInTriples
        /\ ToolCallWithoutFinish =>
               /\ \A i \in 1..Len(NewLines) : ~IsToolLine(NewLines[i])
               /\ OnlyFlushLines

\* In stream mode a tool was finalized, and then a chunk started a tool and
\* the latest chunk extended its arguments, yielding nothing.
C35_Witness ==
    /\ handler.stream
    /\ Len(finished) >= 1
    /\ TripleAt(1)
    /\ Len(started) = Len(finished) + 1
    /\ ToolCallWithoutFinish
    /\ last.before.has_tool_call
    /\ Len(handler.tool_args) > Len(last.before.tool_args)
    /\ NewLines = <<>>

-------------------------------------------------------------------------------
(* What is left when [DONE] is sent.                                       *)

\* The latest call yielded [DONE].
DoneInLatest == \E i \in 1..Len(NewLines) : IsDone(NewLines[i])

\* The handler of the latest call when its [DONE] was yielded: for a done
\* chunk the one before _reset_all_state, for the sentinel the one the call
\* left, whose stream_ended is set after the line.
AtDone ==
    IF Processed("done")
    THEN _finish_current_tool(
             _flush_content_buffer([h |-> last.before, out |-> <<>>,
                                    raised |-> FALSE, started |-> <<>>,
                                    finished |-> <<>>])).h
    ELSE handler

\* The answer text pending before the latest call was sent in a content
\* frame of the call.
PendingTextSent ==
    last.before.content_buffer # <<>> =>
        \E i \in 1..Len(NewLines) :
            /\ IsContent(NewLines[i])
            /\ NewLines[i].content = last.before.content_buffer

\* The tool active before the latest call was sent in the call: its start
\* frame, then the frame with its repaired arguments, then its finish frame.
ActiveToolSent ==
    last.before.has_tool_call =>
        \E i \in 1..(Len(NewLines) - 2) :
            /\ IsToolStart(NewLines[i])
            /\ NewLines[i].tc_id = last.before.tool_id
            /\ IsToolArgs(NewLines[i + 1])
            /\ NewLines[i + 1].fn_arguments =
                   _finish_current_tool(
                       [h |-> last.before, out |-> <<>>, raised |-> FALSE,
                        started |-> <<>>, finished |-> <<>>]).out[2].fn_arguments
            /\ IsToolFinish(NewLines[i + 2])

\* C36: in stream mode every [DONE] line comes right after a frame whose
\* finish_reason is "stop" or "tool_calls", and when a call yields [DONE]
\* the answer buffer is empty and no tool is active at that moment, the
\* text and the tool that were pending having been sent in the same call.
C36_NothingUnsentAtDone ==
    handler.stream =>
        /\ \A i \in 1..Len(out) :
               IsDone(out[i]) =>
                   /\ i > 1
                   /\ IsStopFinish(out[i - 1]) \/ IsToolFinish(out[i - 1])
        /\ DoneInLatest =>
               /\ AtDone.content_buffer = <<>>
               /\ AtDone.buffer_size = 0
               /\ ~AtDone.has_tool_call
               /\ AtDone.tool_args = <<>>
               /\ PendingTextSent
               /\ ActiveToolSent

\* In stream mode a done chunk arrived with a tool active, one whose
\* arguments a fragment had extended, and [DONE] was yielded.
C36_Witness ==
    /\ handler.stream
    /\ Processed("done")
    /\ DoneInLatest
    /\ last.before.has_tool_call
    /\ Len(last.before.tool_args) > Len(ARGS_A)
    /\ IsDone(out[Len(out)])

-------------------------------------------------------------------------------
(* Non-stream mode.                                                        *)

\* The same call on the same fields with stream true.
StreamTwin ==
    process_sse_chunk([h |-> [last.before EXCEPT !.stream = TRUE],
                       out |-> <<>>, raised |-> FALSE, started |-> <<>>,
                       finished |-> <<>>],
                      last.chunk, last.elapsed)

\* The texts of the tools a run finalized.
FinalizedArgs(r) == [k \in 1..Len(r.finished) |-> r.finished[k].tool_args]

\* C37: with stream false no content, tool or finish frame is ever yielded:
\* the only line is the [DONE] of the tool-end sentinel, one per sentinel
\* call; and every call leaves the fields it would leave in stream mode
\* (has_sent_role apart, which only frames set) and finalizes the same tools.
C37_NonStreamYieldsOnlySentinelDone ==
    ~handler.stream =>
        /\ \A i \in 1..Len(out) : IsDone(out[i])
        /\ NewLines = IF SentinelCall THEN <<DONE_LINE>> ELSE <<>>
        /\ ~handler.has_sent_role
        /\ handler = [StreamTwin.h EXCEPT !.stream = FALSE,
                                          !.has_sent_role = FALSE]
        /\ FinalizedArgs(LatestCallWith(last.chunk)) = FinalizedArgs(StreamTwin)

\* With stream false a tool's arguments were extended, answer text was
\* buffered, and the sentinel arrived: the only line is [DONE], the buffer
\* is empty, the tool cleared and the stream ended.
C37_Witness ==
    /\ ~handler.stream
    /\ SentinelCall
    /\ out = <<DONE_LINE>>
    /\ Len(last.before.tool_args) > Len(ARGS_A)
    /\ last.before.content_buffer # <<>>
    /\ handler.content_buffer = <<>>
    /\ ~handler.has_tool_call
    /\ handler.stream_ended

-------------------------------------------------------------------------------
(* A block arriving while a tool is active.                                *)

\* The latest call was a tool_call payload with a segment that has its
\* closing tag, made while a tool was active.
ClosedBlockWhileActive ==
    /\ Processed("tool_call")
    /\ last.before.has_tool_call
    /\ \E index \in 2..Len(Split(GetEditContent(last.chunk), GLM_OPEN)) :
           Contains(Split(GetEditContent(last.chunk), GLM_OPEN)[index], GLM_CLOSE)

\* The first tool frames of the latest call are the three frames of the tool
\* that was active before it.
ActiveToolSentFirst ==
    \E i \in 1..(Len(NewLines) - 2) :
        /\ \A j \in 1..(i - 1) : ~IsToolLine(NewLines[j])
        /\ IsToolStart(NewLines[i])
        /\ NewLines[i].tc_id = last.before.tool_id
        /\ NewLines[i].fn_name = last.before.tool_name
        /\ IsToolArgs(NewLines[i + 1])
        /\ IsToolFinish(NewLines[i + 2])

\* C38: when a segment with its closing tag arrives while a tool is active,
\* that tool is finalized before the segment is parsed: its three frames are
\* the first tool frames of the call and it is the first tool the call
\* finalizes; when the segment is malformed, no tool is active afterwards,
\* the tool's fields are cleared and no tool has been started.
C38_ActiveToolFinalizedBeforeBlock ==
    ClosedBlockWhileActive =>
        /\ FinishedInLatest # <<>>
        /\ FinishedInLatest[1].tool_name = last.before.tool_name
        /\ handler.stream => ActiveToolSentFirst
        /\ last.chunk \in MalformedAlone =>
               /\ ToolState(handler) = ToolState(ToolCleared(handler))
               /\ Len(started) = last.started
               /\ Len(FinishedInLatest) = 1

\* In stream mode tool A was active and a block that is not valid JSON
\* arrived: A's three frames were yielded and no tool is active.
C38_Witness ==
    /\ handler.stream
    /\ ClosedBlockWhileActive
    /\ last.chunk = TC_INVALID
    /\ last.before.tool_name = "A"
    /\ ActiveToolSentFirst
    /\ ~handler.has_tool_call

-------------------------------------------------------------------------------
(* The fields between chunks.                                              *)

\* C39: after every call buffer_size is the length of content_buffer and is
\* below max_buffer_size, and when no tool is active tool_id, tool_name and
\* tool_args are the empty string.
C39_FieldsAreConsistent ==
    /\ handler.buffer_size = Len(handler.content_buffer)
    /\ handler.buffer_size < max_buffer_size
    /\ ~handler.has_tool_call =>
           /\ handler.tool_id = ""
           /\ handler.tool_name = ""
           /\ handler.tool_args = <<>>

\* The buffer held one character less than max_buffer_size and one more
\* character arrived: the buffer is empty; no tool is active and the tool
\* fields are empty.
C39_Witness ==
    /\ Processed("answer")
    /\ last.before.buffer_size = max_buffer_size - 1
    /\ Len(GetDeltaContent(last.chunk)) = 1
    /\ handler.buffer_size = 0
    /\ handler.content_buffer = <<>>
    /\ ~handler.has_tool_call
    /\ handler.tool_id = ""
====
